---------------------------- MODULE Spec2Model ----------------------------
(***************************************************************************)
(* LoRa transport (LoRaTCP) of samuel-erb/FenceMonitor: the transport      *)
(* endpoints of one sensor node and one gateway node, their TCBs, the      *)
(* registries of the data-link and the radio link between the two nodes.   *)
(*                                                                         *)
(* One endpoint lives on each node: "s" on the sensor (it calls connect)   *)
(* and "g" on the gateway (it calls listen).  The worker thread's          *)
(* LoRaTCP.run() is one action, the application's API calls are one action *)
(* each.  The radio, the TX queue and the frame addressing of the          *)
(* data-link are folded into the variable link: the set of segments (in    *)
(* wire format) that are in flight towards a node.  The link may lose,     *)
(* duplicate and reorder them.                                             *)
(*                                                                         *)
(* Timers hold "a start time or None" in the code and are polled; here a   *)
(* timer is TRUE when it holds a start time, and whether the timeout has   *)
(* elapsed when run() polls it is chosen by the environment.               *)
(***************************************************************************)
EXTENDS Integers, Sequences, FiniteSets, TLC

(***************************************************************************)
(* Bounds of the model.                                                    *)
(***************************************************************************)
\* bytes the sensor application writes in all
MaxSensorBytes == 2
\* bytes the gateway application writes in all
MaxGatewayBytes == 1
\* frames in flight on the link at once (a frame sent beyond it is lost)
MaxLink == 2
\* frames waiting in one endpoint's _incoming_dataframes
MaxIncoming == 1
\* retransmission-timer expiries in one run of the main specification
MaxExpiries == 1
\* frames the link duplicates in one run
MaxDup == 1
\* listen() calls on a node (each draws a socket-id from the counter)
MaxListen == 1
\* close() calls on one endpoint
MaxClose == 1
\* frames the link loses in a run of the fair specification
MaxLosses == 2
\* bytes each application writes in a run of the fair specification
MaxFairBytes == 1
\* send() calls of the sensor in a run of the reassembly specification, which
\* is also the number of frames the link carries at once there
MaxReasmSegments == 3
\* bytes the sensor writes with each of them
ReasmChunk == 4

(***************************************************************************)
(* Program constants.                                                      *)
(***************************************************************************)
SEQ_MOD == 65536
SEQ_HALF == 32768
\* TCB.py: initial snd_wnd / rcv_wnd
TCB_MAX_PAYLOAD_SIZE == 241
\* LoRaTCP.py: limit of _validate_segment and base of the rcv_wnd update
LoRaTCP_MAX_PAYLOAD_SIZE == 242
RTX_QUEUE_MAXLEN == 20
\* LoRaDataLink: Queue(maxsize=10) of frames to transmit
TX_QUEUE_MAXSIZE == 10
\* LoRaDataLink.run: the duty-cycle window (60 * 60 * 1000 ms) and the
\* transmit time allowed in it
DUTY_CYCLE_WINDOW_MS == 3600000
DUTY_CYCLE_BUDGET_MS == 36000
\* LoRaDataLink.SENSOR_ACTIVE_TIMEOUT
SENSOR_ACTIVE_TIMEOUT == 10000
\* micropython_time: ticks_ms() is the clock & 0x7FFFFFFF, and ticks_diff
\* takes a difference above 0x3FFFFFFF for a negative one
TICKS_MASK == 2147483647
TICKS_DIFF_MAX == 1073741823

\* steps of time in a run of the duty-cycle specification
MaxTicks == 2
\* half a duty-cycle window, ms
HalfWindow == 1800000
\* the steps time takes: the sensor stays active over the short one
TickDurations == {SENSOR_ACTIVE_TIMEOUT, HalfWindow}
\* the time on air of one frame, ms: two frames spend the budget to the last
\* millisecond or exceed it by one
AirTimes == {18000, 18001}
MAX_RETRANSMISSION_ATTEMPTS == 25

\* Python's None in a numeric field
None == -1
\* a budget that does not run out
Unlimited == 1000000
\* what is left of a budget n after one use
Less(n) == IF n = Unlimited THEN n ELSE n - 1

Endpoints == {"s", "g"}
\* "g2" is the endpoint the gateway application opens for the next sensor
\* once "g" has taken a connection (lora_gateway.py, loop of main)
AllEndpoints == Endpoints \cup {"g2"}
Nodes == {"sensor", "gateway"}
NodeOf(e) == IF e = "s" THEN "sensor" ELSE "gateway"
OtherNode(n) == IF n = "sensor" THEN "gateway" ELSE "sensor"
Peer(e) == IF e = "s" THEN "g" ELSE "s"

\* LORA_DATALINK_MODE of the node's data-link
IsGateway(n) == n = "gateway"

\* The values random.getrandbits(16) is taken to return for iss on the two
\* nodes: the sensor's sequence numbers wrap around 65536 during the
\* handshake, the gateway's cross the half of the sequence space.
IssChoices(e) == IF e = "s" THEN {65533} ELSE {32766}

\* The byte streams the two applications write, byte by byte distinct:
\* 11, 12, ... on the sensor and 51, 52, ... on the gateway.
AppData(e) == [i \in 1..40 |-> (IF e = "s" THEN 10 ELSE 50) + i]

\* connect(("192.168.1.1", 1883)): ip_to_int(ip).to_bytes(4) + port.to_bytes(2)
REMOTE_IP == <<192, 168, 1, 1>>
REMOTE_PORT == 1883
ConnectPayload == REMOTE_IP \o <<REMOTE_PORT \div 256, REMOTE_PORT % 256>>

(***************************************************************************)
(* Seq: 16-bit sequence arithmetic (LoRaTCPSegment.py, class Seq).         *)
(***************************************************************************)
Seq_lt(a, b) == ((a - b) % SEQ_MOD) > SEQ_HALF
Seq_le(a, b) == a = b \/ Seq_lt(a, b)
Seq_gt(a, b) == ((b - a) % SEQ_MOD) > SEQ_HALF
Seq_ge(a, b) == a = b \/ Seq_gt(a, b)
Seq_add(a, k) == (a + k) % SEQ_MOD
Seq_sub(a, b) == ((a - b + SEQ_HALF) % SEQ_MOD) - SEQ_HALF

(***************************************************************************)
(* LoRaTCPSegment: the segment object and its wire format.                 *)
(***************************************************************************)
\* LoRaTCPSegment.__init__ with every field given
Segment(socket_id, seq, ack, syn_flag, ack_flag, fin_flag, rst_flag, payload) ==
    [socket_id |-> socket_id, seq |-> seq, ack |-> ack,
     syn_flag |-> syn_flag, ack_flag |-> ack_flag,
     fin_flag |-> fin_flag, rst_flag |-> rst_flag, payload |-> payload]

\* LoRaTCPSegment(socket_id, seq=..., rst_flag=True): ack defaults to Seq(0)
\* and ack_flag defaults to True
RstSegment(socket_id, seq) ==
    Segment(socket_id, seq, 0, FALSE, TRUE, FALSE, TRUE, <<>>)

\* LoRaTCPSegment(socket_id, seq=..., ack=..., ack_flag=True, payload=...)
AckSegment(socket_id, seq, ack, payload) ==
    Segment(socket_id, seq, ack, FALSE, TRUE, FALSE, FALSE, payload)

\* LoRaTCPSegment(socket_id, seq=..., ack=..., ack_flag=True, fin_flag=True)
FinSegment(socket_id, seq, ack) ==
    Segment(socket_id, seq, ack, FALSE, TRUE, TRUE, FALSE, <<>>)

Bit(b) == IF b THEN 1 ELSE 0

\* LoRaTCPSegment.to_bytes: (socket_id & 0x0F) << 4 | flags, seq, ack, payload
to_bytes(seg) ==
    [b0 |-> ((seg.socket_id % 16) * 16) + Bit(seg.syn_flag) + 2 * Bit(seg.ack_flag)
               + 4 * Bit(seg.fin_flag) + 8 * Bit(seg.rst_flag),
     seq |-> seg.seq, ack |-> seg.ack, payload |-> seg.payload]

\* LoRaTCPSegment.from_bytes
from_bytes(data) ==
    LET flags_byte == data.b0 % 16
    IN  Segment(data.b0 \div 16, data.seq, data.ack,
                flags_byte % 2 = 1, (flags_byte \div 2) % 2 = 1,
                (flags_byte \div 4) % 2 = 1, (flags_byte \div 8) % 2 = 1,
                data.payload)

(***************************************************************************)
(* TCB (TCB.py).                                                           *)
(***************************************************************************)
\* TCB.__init__; socket_id comes from TCB.SOCKET_ID_COUNTER, iss from the PRNG
NewTCB(socket_id, iss) ==
    [socket_id |-> socket_id, active_open |-> TRUE,
     time_wait_timer |-> FALSE, retransmission_timeout_timer |-> FALSE,
     snd_wnd |-> TCB_MAX_PAYLOAD_SIZE, rcv_wnd |-> TCB_MAX_PAYLOAD_SIZE,
     state |-> "CLOSED",
     retransmission_queue |-> <<>>, receive_buffer |-> {},
     reassembled_data |-> <<>>, send_buffer |-> <<>>,
     fin_seq |-> None, snd_una |-> None, snd_nxt |-> None, rcv_nxt |-> None,
     iss |-> iss, irs |-> None]

\* TCB.delete: every field back to its initial value, socket_id None, iss re-drawn
delete(t, iss) == NewTCB(None, iss)

\* TCB.acknowledge_segment_in_retransmission_queue
acknowledge_segment_in_retransmission_queue(seg_seq, seg_len, incoming_ack) ==
    Seq_le(Seq_add(seg_seq, seg_len), incoming_ack)

\* TCB.remove_acknowledged_segments_from_retransmission_queue
KeepUnacked(t, seg) ==
    ~acknowledge_segment_in_retransmission_queue(seg.seq, Len(seg.payload), t.snd_una)
remove_acknowledged_segments_from_retransmission_queue(t) ==
    [t EXCEPT !.retransmission_queue = SelectSeq(@, LAMBDA seg : KeepUnacked(t, seg))]

\* TCB.is_ack_acceptable
is_ack_acceptable(t, ack) == Seq_lt(t.snd_una, ack) /\ Seq_le(ack, t.snd_nxt)

\* TCB.cancel_all_timers
cancel_all_timers(t) ==
    [t EXCEPT !.retransmission_timeout_timer = FALSE, !.time_wait_timer = FALSE]

\* deque(maxlen=20).append: a full deque drops its oldest element
deque_append(q, x) ==
    IF Len(q) >= RTX_QUEUE_MAXLEN THEN Tail(q) \o <<x>> ELSE q \o <<x>>

\* receive_buffer[seq] = payload (a dict keyed by seq)
buffer_put(buf, seq, payload) ==
    {x \in buf : x[1] # seq} \cup {<<seq, payload>>}
buffer_has(buf, seq) == \E x \in buf : x[1] = seq
buffer_get(buf, seq) == (CHOOSE x \in buf : x[1] = seq)[2]
buffer_pop(buf, seq) == {x \in buf : x[1] # seq}

\* list.remove(x): the first occurrence
RECURSIVE list_remove(_, _)
list_remove(l, x) ==
    IF l = <<>> THEN <<>>
    ELSE IF Head(l) = x THEN Tail(l)
    ELSE <<Head(l)>> \o list_remove(Tail(l), x)
list_has(l, x) == \E i \in 1..Len(l) : l[i] = x

Min(a, b) == IF a < b THEN a ELSE b

(***************************************************************************)
(* State.                                                                  *)
(***************************************************************************)
VARIABLES
    tcb,                    \* endpoint -> its TCB
    incoming_dataframes,    \* endpoint -> list of frames waiting for run()
    retransmission_attempts,               \* endpoint -> counter
    last_retransmission_sequence_number,   \* endpoint -> seq or None
    sockets,                \* node -> data-link list of connected endpoints
    listening_sockets,      \* node -> data-link list of listening endpoints
    INSTANCES,              \* node -> LoRaTCP.INSTANCES, the worker's list
    SOCKET_ID_COUNTER,      \* node -> TCB.SOCKET_ID_COUNTER
    running,                \* node -> the networking thread is alive
    link,                   \* frames in flight, each towards one node
    link_down,              \* the radio link has gone silent for good
    app_sent,               \* endpoint -> bytes accepted by send() so far
    app_rcvd,               \* endpoint -> bytes returned by read() so far
    transmitQueue,          \* the gateway data-link's frames to transmit
    duty_cycle_timer,       \* the gateway data-link's start of the window
    transmit_time,          \* the gateway data-link's time on air in the window
    last_communication,     \* the gateway's SensorState.last_communication
    clock,                  \* time.ticks_ms() on the gateway
    data_link,              \* one LoRaDataLink with its SensorState records
    pending,                \* thread -> the segment its call has built, not yet sent
    budget,                 \* what the environment may still do in this run
    last                    \* the latest operation on an endpoint (history)

vars == <<tcb, incoming_dataframes, retransmission_attempts,
          last_retransmission_sequence_number, sockets, listening_sockets,
          INSTANCES, SOCKET_ID_COUNTER, running, link, link_down,
          app_sent, app_rcvd, transmitQueue, duty_cycle_timer, transmit_time,
          last_communication, clock, data_link, pending, budget, last>>

\* the gateway data-link's own state and its clock
datalink_vars ==
    <<transmitQueue, duty_cycle_timer, transmit_time, last_communication, clock,
      data_link>>

\* The part of the state the program's operations work on, as one value:
\* handlers are operators from a world to a world.  sent collects the
\* segments handed to send_segment, raised the exception that is propagating,
\* rtx_fresh / tw_fresh that the timer was started during this operation (a
\* timer started at time.ticks_ms() has not run out within the same call).
World ==
    [tcb |-> tcb, incoming |-> incoming_dataframes,
     attempts |-> retransmission_attempts,
     last_seq |-> last_retransmission_sequence_number,
     sockets |-> sockets, listening |-> listening_sockets,
     instances |-> INSTANCES, counter |-> SOCKET_ID_COUNTER,
     link |-> link, txq |-> transmitQueue, sent |-> <<>>, raised |-> "none",
     rtx_fresh |-> FALSE, tw_fresh |-> FALSE]

\* Sequencing: Then(w, G) is G(w) with w worked out once, the state one
\* statement leaves behind being the state the next one starts from.
Then(w, G(_)) == CHOOSE r \in {G(x) : x \in {w}} : TRUE

SetTCB(w, e, t) == [w EXCEPT !.tcb[e] = t]
\* self.tcb.state = ...
SetState(w, e, state) == [w EXCEPT !.tcb[e].state = state]
Raise(w, x) == [w EXCEPT !.raised = x]

(***************************************************************************)
(* Data-link (LoRaDataLink.py): the registries and the way frames take.    *)
(***************************************************************************)
\* LoRaDataLink.register_listening_socket
register_listening_socket(w, e) ==
    IF ~IsGateway(NodeOf(e))
    THEN Raise(w, "Exception")
    ELSE [w EXCEPT !.listening[NodeOf(e)] = Append(@, e)]

\* LoRaDataLink.register_syn_rcvd_socket (LoRaTCP calls it by the name
\* register_syn_sent_socket)
register_syn_rcvd_socket(w, e) ==
    LET n == NodeOf(e)
    IN  [w EXCEPT !.listening[n] = list_remove(@, e),
                  !.sockets[n] = Append(@, e)]

\* LoRaDataLink.remove_socket: list.remove raises ValueError when absent
remove_socket(w, e) ==
    LET n == NodeOf(e)
    IN  IF list_has(w.sockets[n], e)
        THEN [w EXCEPT !.sockets[n] = list_remove(@, e)]
        ELSE Raise(w, "ValueError")

\* The frame that carries segment bytes towards node n
Frame(n, data) ==
    [to |-> n, b0 |-> data.b0, seq |-> data.seq, ack |-> data.ack,
     payload |-> data.payload]

\* Queue.put_sync: a full queue drops its oldest item
put_sync(q, item) ==
    Append(IF Len(q) >= TX_QUEUE_MAXSIZE THEN Tail(q) ELSE q, item)

\* the frame goes on the air.  A frame sent while the link is saturated or
\* silent is lost.
transmit(l, f) ==
    IF link_down THEN l
    ELSE IF f \in l \/ Cardinality(l) < budget.link THEN l \cup {f}
    ELSE l

\* LoRaDataLink.add_to_send_queue.  In the runs that follow the gateway's
\* transmit queue (budget.queued) the gateway's frame waits there for
\* LoRaDataLink.run; elsewhere add_to_send_queue stands for the transmit half
\* of LoRaDataLink.run as well, and the frame goes on the air.
add_to_send_queue(w, e, data) ==
    LET f == Frame(OtherNode(NodeOf(e)), data)
    IN  IF budget.queued /\ IsGateway(NodeOf(e))
        THEN [w EXCEPT !.txq = put_sync(@, f)]
        ELSE [w EXCEPT !.link = transmit(@, f)]

\* The socket-id the dispatcher of LoRaDataLink.run reads from a frame
dispatch_socket_id(f) == from_bytes(f).socket_id

\* LoRaDataLink.run, receive half: the endpoint a received segment goes to.
\* The last endpoint of sockets with that socket-id, else the first listening
\* endpoint, else nobody ("none": the frame is dropped).
Matching(n, f) ==
    {i \in 1..Len(sockets[n]) : tcb[sockets[n][i]].socket_id = dispatch_socket_id(f)}
dispatch(n, f) ==
    IF Matching(n, f) # {}
    THEN sockets[n][CHOOSE i \in Matching(n, f) : \A j \in Matching(n, f) : j <= i]
    ELSE IF Len(listening_sockets[n]) > 0 THEN listening_sockets[n][1]
    ELSE "none"

(***************************************************************************)
(* LoRaTCP: helpers.                                                       *)
(***************************************************************************)
\* LoRaTCP.send_segment
send_segment(w, e, seg, is_retransmission) ==
    LET t == w.tcb[e]
        w1 == add_to_send_queue([w EXCEPT !.sent = Append(@, seg)], e, to_bytes(seg))
        queued == ~is_retransmission
                     /\ (Len(seg.payload) > 0 \/ seg.syn_flag \/ seg.fin_flag)
        nxt1 == IF ~is_retransmission /\ Len(seg.payload) > 0
                THEN Seq_add(t.snd_nxt, Len(seg.payload)) ELSE t.snd_nxt
        nxt2 == IF ~is_retransmission /\ (seg.fin_flag \/ seg.syn_flag)
                THEN Seq_add(nxt1, 1) ELSE nxt1
        t1 == [t EXCEPT
                 !.retransmission_queue = IF queued THEN deque_append(@, seg) ELSE @,
                 !.retransmission_timeout_timer = IF queued THEN TRUE ELSE @,
                 !.snd_nxt = nxt2,
                 !.fin_seq = IF ~is_retransmission /\ seg.fin_flag THEN seg.seq ELSE @]
    IN  [SetTCB(w1, e, t1) EXCEPT !.rtx_fresh = @ \/ queued]

\* LoRaTCP._internal_close_call, its last line: LoRaTCP.INSTANCES.remove(self),
\* reached unless remove_socket has raised
remove_instance(w, e) ==
    IF w.raised # "none" THEN w
    ELSE IF list_has(w.instances[NodeOf(e)], e)
    THEN [w EXCEPT !.instances[NodeOf(e)] = list_remove(@, e)]
    ELSE Raise(w, "ValueError")

\* LoRaTCP._internal_close_call
internal_close_call(w, e, iss) ==
    Then(remove_socket(SetTCB(w, e, delete(w.tcb[e], iss)), e),
         LAMBDA w1 : remove_instance(w1, e))

\* state CLOSED and _internal_close_call
enter_CLOSED(w, e, iss) ==
    Then(SetState(w, e, "CLOSED"), LAMBDA w1 : internal_close_call(w1, e, iss))

\* LoRaTCP.is_fin_acknowledged
is_fin_acknowledged(t) == t.fin_seq # None /\ Seq_gt(t.snd_una, t.fin_seq)

\* rcv_nxt <= seq < rcv_nxt + rcv_wnd in Seq arithmetic
InWindow(t, seq) ==
    Seq_le(t.rcv_nxt, seq) /\ Seq_lt(seq, Seq_add(t.rcv_nxt, t.rcv_wnd))

\* LoRaTCP.is_syn_in_window
is_syn_in_window(t, seg) == seg.syn_flag /\ InWindow(t, seg.seq)

\* LoRaTCP.check_if_segment_is_in_receive_window
check_if_segment_is_in_receive_window(t, seg) ==
    LET seg_len == Len(seg.payload)
        last_byte_seq == Seq_sub(Seq_add(seg.seq, seg_len), 1)
    IN  IF seg_len = 0 /\ t.rcv_wnd = 0 THEN seg.seq = t.rcv_nxt
        ELSE IF seg_len = 0 /\ t.rcv_wnd > 0 THEN InWindow(t, seg.seq)
        ELSE IF seg_len > 0 /\ t.rcv_wnd = 0 THEN FALSE
        ELSE InWindow(t, seg.seq) \/ InWindow(t, last_byte_seq)

\* LoRaTCP.handle_event_segment_arrives, first check: the outcome of the
\* window check, which a receive window of zero overrides
segment_acceptable(t, seg) ==
    check_if_segment_is_in_receive_window(t, seg) /\ t.rcv_wnd # 0

\* LoRaTCP._validate_segment
validate_segment(seg) ==
    /\ Len(seg.payload) <= LoRaTCP_MAX_PAYLOAD_SIZE
    /\ ~(seg.syn_flag /\ seg.fin_flag)
    /\ ~(seg.rst_flag /\ (seg.syn_flag \/ seg.fin_flag))

\* (mutant) reassembly that takes a parked segment whatever its place
reassemble_any_order(t) ==
    IF t.receive_buffer = {} THEN t
    ELSE LET x == CHOOSE y \in t.receive_buffer : TRUE
         IN  [t EXCEPT !.receive_buffer = @ \ {x},
                       !.reassembled_data = @ \o x[2],
                       !.rcv_nxt = Seq_add(@, Len(x[2]))]

\* a reassembly that takes the segment at rcv_nxt and does not look further
reassemble_once(t) ==
    IF ~buffer_has(t.receive_buffer, t.rcv_nxt) THEN t
    ELSE [t EXCEPT !.receive_buffer = buffer_pop(@, t.rcv_nxt),
                   !.reassembled_data = @ \o buffer_get(t.receive_buffer, t.rcv_nxt),
                   !.rcv_nxt = Seq_add(@, Len(buffer_get(t.receive_buffer, t.rcv_nxt)))]

\* LoRaTCP._reassemble_received_data
RECURSIVE reassemble_received_data(_)
reassemble_received_data(t) ==
    IF ~buffer_has(t.receive_buffer, t.rcv_nxt) THEN t
    ELSE LET segment_data == buffer_get(t.receive_buffer, t.rcv_nxt)
         IN  reassemble_received_data(
                 [t EXCEPT !.receive_buffer = buffer_pop(@, t.rcv_nxt),
                           !.reassembled_data = @ \o segment_data,
                           !.rcv_nxt = Seq_add(@, Len(segment_data))])

Take(s, k) == SubSeq(s, 1, k)
Drop(s, k) == SubSeq(s, k + 1, Len(s))

(***************************************************************************)
(* LoRaTCP: the application's calls.                                       *)
(***************************************************************************)
\* LoRaTCP.close
close(w, e, iss) ==
    LET t == w.tcb[e]
        fin == FinSegment(t.socket_id, t.snd_nxt, t.rcv_nxt)
    IN  CASE t.state = "CLOSED" -> w
          [] t.state \in {"LISTEN", "SYN_SENT"} -> internal_close_call(w, e, iss)
          [] t.state = "SYN_RCVD" -> send_segment(w, e, fin, FALSE)
          [] t.state = "ESTAB" ->
                SetState(send_segment(w, e, fin, FALSE), e, "FIN_WAIT_1")
          [] t.state = "CLOSE_WAIT" -> send_segment(w, e, fin, FALSE)
          [] OTHER -> w

\* LoRaTCP.connect
connect(w, e) ==
    LET t == w.tcb[e]
        new_seg == Segment(t.socket_id, t.iss, 0, TRUE, FALSE, FALSE, FALSE,
                           ConnectPayload)
        t1 == [t EXCEPT !.snd_una = t.iss, !.snd_nxt = t.iss]
    IN  IF t.state # "CLOSED" THEN Raise(w, "OSError")
        ELSE IF t.socket_id = None THEN Raise(w, "TypeError")
        ELSE IF t.socket_id > 15 THEN Raise(w, "ValueError")
        ELSE SetState(Then(register_syn_rcvd_socket(SetTCB(w, e, t1), e),
                           LAMBDA w1 : send_segment(w1, e, new_seg, FALSE)),
                      e, "SYN_SENT")

\* LoRaTCP.listen, up to the wait for the state to leave LISTEN
listen(w, e, iss) ==
    LET n == NodeOf(e)
        t1 == [NewTCB(w.counter[n], iss) EXCEPT
                 !.snd_nxt = iss, !.active_open = FALSE, !.state = "LISTEN"]
        w1 == [SetTCB(w, e, t1) EXCEPT !.counter[n] = @ + 1]
    IN  IF w.tcb[e].state # "CLOSED" THEN Raise(w, "OSError")
        ELSE register_listening_socket(w1, e)

\* LoRaTCP.__init__ with TCB.__init__: the endpoint gets a fresh TCB whose
\* socket-id is the value of the node's counter, and joins INSTANCES
construct(w, e, iss) ==
    LET n == NodeOf(e)
    IN  [SetTCB(w, e, NewTCB(w.counter[n], iss)) EXCEPT
            !.counter[n] = @ + 1,
            !.instances[n] = Append(@, e)]

\* a send() that takes the data whenever there is a connection, closing or not
send_while_closing(w, e, data) ==
    LET t == w.tcb[e]
    IN  IF t.state \notin {"CLOSED", "LISTEN"}
        THEN SetTCB(w, e, [t EXCEPT !.send_buffer = @ \o data])
        ELSE Raise(w, "OSError")

\* LoRaTCP.send
send(w, e, data) ==
    LET t == w.tcb[e]
    IN  IF t.state \in {"SYN_SENT", "SYN_RCVD", "ESTAB", "CLOSE_WAIT"}
        THEN SetTCB(w, e, [t EXCEPT !.send_buffer = @ \o data])
        ELSE Raise(w, "OSError")

\* What settimeout() / setblocking() have made of the socket: non-blocking
\* (_blocking False, as after __init__), blocking with a finite timeout, or
\* blocking for good (_timeout None)
RecvModes == {"nonblocking", "timeout", "blocking"}

\* LoRaTCP.read leaves its loop: there is data, or the socket does not wait
\* for good (a finite timeout has run out by the time read() returns)
read_returns(t, mode) ==
    \/ mode # "blocking"
    \/ t.state = "CLOSED"
    \/ t.reassembled_data # <<>>

\* a read() that hands over all there is, whatever bufsize
read_data_whole(t, bufsize, mode) ==
    IF t.state = "CLOSED" THEN <<>>
    ELSE IF t.state \in {"LISTEN", "SYN_SENT"} /\ mode = "nonblocking" THEN <<>>
    ELSE t.reassembled_data

\* LoRaTCP.read: the bytes it returns (<<>> stands for None) ...
read_data(t, bufsize, mode) ==
    IF t.state = "CLOSED" THEN <<>>
    ELSE IF t.state \in {"LISTEN", "SYN_SENT"} /\ mode = "nonblocking" THEN <<>>
    ELSE Take(t.reassembled_data, Min(bufsize, Len(t.reassembled_data)))
\* ... and what it does to the endpoint; OSError(110) is ETIMEDOUT
read(w, e, bufsize, mode) ==
    LET t == w.tcb[e]
    IN  IF t.state = "CLOSED" THEN Raise(w, "OSError")
        ELSE IF t.state \in {"LISTEN", "SYN_SENT"} /\ mode = "nonblocking" THEN w
        ELSE IF t.reassembled_data = <<>>
        THEN IF mode = "nonblocking" THEN w ELSE Raise(w, "ETIMEDOUT")
        ELSE SetTCB(w, e, [t EXCEPT !.reassembled_data =
                                Drop(@, Len(read_data(t, bufsize, mode)))])

(***************************************************************************)
(* LoRaTCP: the timers polled by run().                                    *)
(***************************************************************************)
\* LoRaTCP._check_time_wait_timer; elapsed: the timeout has run out
check_time_wait_timer(w, e, elapsed, iss) ==
    IF w.tcb[e].time_wait_timer /\ elapsed /\ ~w.tw_fresh
    THEN enter_CLOSED(w, e, iss)
    ELSE w

\* _check_retransmission_timer, the attempt counter of the segment at the front
count_attempt(w, e, segment) ==
    [w EXCEPT !.attempts[e] = IF segment.seq = w.last_seq[e] THEN @ + 1 ELSE 0,
              !.last_seq[e] = segment.seq]

\* _check_retransmission_timer, the cap: RST with seq = snd_nxt, then close()
give_up(w, e, segment, iss) ==
    IF w.attempts[e] >= MAX_RETRANSMISSION_ATTEMPTS
    THEN Then(send_segment(w, e, RstSegment(segment.socket_id, w.tcb[e].snd_nxt), FALSE),
              LAMBDA w1 : close(w1, e, iss))
    ELSE w

\* a timer expiry that starts the timer again and sends nothing
restart_only(w, e, segment) ==
    IF w.raised # "none" THEN w
    ELSE [w EXCEPT !.tcb[e].retransmission_timeout_timer = TRUE]

\* _check_retransmission_timer, the resend: the segment object (which is the
\* one at the front of the queue, if close() has left it there) gets the
\* current rcv_nxt as its ack unless it is a SYN; to_bytes fails on ack None
resend(w, e, segment) ==
    LET t == w.tcb[e]
        resent == IF segment.syn_flag THEN segment
                  ELSE [segment EXCEPT !.ack = t.rcv_nxt, !.ack_flag = TRUE]
        t1 == IF t.retransmission_queue # <<>> /\ Head(t.retransmission_queue) = segment
              THEN [t EXCEPT !.retransmission_queue[1] = resent]
              ELSE t
    IN  IF w.raised # "none" THEN w
        ELSE IF resent.ack = None THEN Raise(SetTCB(w, e, t1), "struct.error")
        ELSE [Then(SetTCB(w, e, t1), LAMBDA w1 : send_segment(w1, e, resent, TRUE))
                 EXCEPT !.tcb[e].retransmission_timeout_timer = TRUE]

\* LoRaTCP._check_retransmission_timer; elapsed: the timeout has run out
check_retransmission_timer(w, e, elapsed, iss) ==
    LET t == w.tcb[e]
        segment == Head(t.retransmission_queue)
    IN  IF ~(t.retransmission_timeout_timer /\ elapsed /\ ~w.rtx_fresh) THEN w
        ELSE IF t.retransmission_queue = <<>>
        THEN SetTCB(w, e, [t EXCEPT !.retransmission_timeout_timer = FALSE])
        ELSE Then(Then(count_attempt(w, e, segment),
                       LAMBDA w1 : give_up(w1, e, segment, iss)),
                  LAMBDA w2 : resend(w2, e, segment))

(***************************************************************************)
(* LoRaTCP.handle_event_segment_arrives.                                   *)
(***************************************************************************)
\* state CLOSED.  Without an ACK flag the reply needs Seq(seg.payload), which
\* raises for a payload that is no decimal literal: nothing is sent.
arrives_CLOSED(w, e, seg) ==
    IF seg.rst_flag THEN w
    ELSE IF ~seg.ack_flag THEN Raise(w, "ValueError")
    ELSE send_segment(w, e, RstSegment(seg.socket_id, seg.seq), FALSE)

\* state LISTEN, third step, after the SYN|ACK is sent: SND.NXT, SND.UNA, the
\* state, the socket-id of the SYN, and the move to the connected sockets
enter_SYN_RCVD(w, e, seg) ==
    register_syn_rcvd_socket(
        [w EXCEPT !.tcb[e].snd_nxt = Seq_add(w.tcb[e].iss, 1),
                  !.tcb[e].snd_una = w.tcb[e].iss,
                  !.tcb[e].state = "SYN_RCVD",
                  !.tcb[e].socket_id = seg.socket_id], e)

\* a LISTEN that acknowledges the SYN alone and not the bytes that come with it
arrives_LISTEN_syn_only(w, e, seg) ==
    LET t == w.tcb[e]
        t1 == [t EXCEPT !.rcv_nxt = Seq_add(seg.seq, 1), !.irs = seg.seq]
        new_seg == Segment(seg.socket_id, t.iss, t1.rcv_nxt, TRUE, TRUE, FALSE, FALSE, <<>>)
    IN  IF seg.rst_flag THEN w
        ELSE IF seg.ack_flag
        THEN send_segment(w, e, RstSegment(seg.socket_id, seg.ack), FALSE)
        ELSE IF seg.syn_flag
        THEN Then(Then(SetTCB(w, e, t1), LAMBDA w1 : send_segment(w1, e, new_seg, FALSE)),
                  LAMBDA w2 : enter_SYN_RCVD(w2, e, seg))
        ELSE w

\* state LISTEN
arrives_LISTEN(w, e, seg) ==
    LET t == w.tcb[e]
        t1 == [t EXCEPT !.rcv_nxt = Seq_add(Seq_add(seg.seq, Len(seg.payload)), 1),
                        !.irs = seg.seq]
        new_seg == Segment(seg.socket_id, t.iss, t1.rcv_nxt, TRUE, TRUE, FALSE, FALSE, <<>>)
    IN  IF seg.rst_flag THEN w
        ELSE IF seg.ack_flag
        THEN send_segment(w, e, RstSegment(seg.socket_id, seg.ack), FALSE)
        ELSE IF seg.syn_flag
        THEN Then(Then(SetTCB(w, e, t1), LAMBDA w1 : send_segment(w1, e, new_seg, FALSE)),
                  LAMBDA w2 : enter_SYN_RCVD(w2, e, seg))
        ELSE w

\* a SYN_SENT that does not count the sequence number the peer's SYN takes
arrives_SYN_SENT_syn_uncounted(w, e, seg) ==
    LET t == w.tcb[e]
        t1 == [t EXCEPT !.rcv_nxt = seg.seq, !.irs = seg.seq]
        t2 == IF seg.ack_flag
              THEN remove_acknowledged_segments_from_retransmission_queue(
                       [t1 EXCEPT !.snd_una = seg.ack])
              ELSE t1
        t3 == [t2 EXCEPT !.state = "ESTAB"]
    IN  Then(SetTCB(w, e, t3),
             LAMBDA w1 : send_segment(w1, e, AckSegment(seg.socket_id, t2.snd_nxt,
                                                        t2.rcv_nxt, <<>>), FALSE))

\* state SYN_SENT, fourth step: the SYN bit
arrives_SYN_SENT_syn(w, e, seg) ==
    LET t == w.tcb[e]
        t1 == [t EXCEPT !.rcv_nxt = Seq_add(seg.seq, 1), !.irs = seg.seq]
        t2 == IF seg.ack_flag
              THEN remove_acknowledged_segments_from_retransmission_queue(
                       [t1 EXCEPT !.snd_una = seg.ack])
              ELSE t1
        payload_len == Min(Len(t2.send_buffer), t2.snd_wnd)
        t3 == [t2 EXCEPT !.state = "ESTAB", !.send_buffer = Drop(@, payload_len)]
        ack_seg == AckSegment(seg.socket_id, t2.snd_nxt, t2.rcv_nxt,
                              Take(t2.send_buffer, payload_len))
        t4 == [t2 EXCEPT !.state = "SYN_RCVD"]
    IN  IF Seq_lt(t2.iss, t2.snd_una)
        THEN Then(SetTCB(w, e, t3), LAMBDA w1 : send_segment(w1, e, ack_seg, FALSE))
        ELSE Then(SetTCB(w, e, t4),
                  LAMBDA w1 : send_segment(w1, e, AckSegment(seg.socket_id, t2.iss,
                                                             t2.rcv_nxt, <<>>), FALSE))

\* state SYN_SENT
arrives_SYN_SENT(w, e, seg, iss) ==
    LET t == w.tcb[e]
        out_of_range == Seq_le(seg.ack, t.iss) \/ Seq_gt(seg.ack, t.snd_nxt)
        ack_acceptable == seg.ack_flag /\ is_ack_acceptable(t, seg.ack)
    IN  IF seg.ack_flag /\ out_of_range
        THEN IF ~seg.rst_flag
             THEN send_segment(w, e, RstSegment(seg.socket_id, seg.ack), FALSE)
             ELSE w
        ELSE IF seg.rst_flag
        THEN IF ack_acceptable THEN enter_CLOSED(w, e, iss) ELSE w
        ELSE IF seg.syn_flag THEN arrives_SYN_SENT_syn(w, e, seg)
        ELSE w

\* Otherwise, first step: a segment that is not acceptable
arrives_unacceptable(w, e, seg, iss) ==
    LET t == w.tcb[e]
        t1 == IF is_ack_acceptable(t, seg.ack)
              THEN remove_acknowledged_segments_from_retransmission_queue(
                       [t EXCEPT !.snd_una = seg.ack])
              ELSE t
        w1 == SetTCB(w, e, t1)
    IN  IF seg.rst_flag /\ InWindow(t1, seg.seq)
        THEN enter_CLOSED(w1, e, iss)
        ELSE IF ~seg.rst_flag
        THEN send_segment(w1, e, AckSegment(seg.socket_id, t1.snd_nxt, t1.rcv_nxt, <<>>),
                          FALSE)
        ELSE w1

\* SND.UNA <- SEG.ACK whatever SEG.ACK is
advance_snd_una_unchecked(t, seg) ==
    remove_acknowledged_segments_from_retransmission_queue(
        [t EXCEPT !.snd_una = seg.ack])

\* SND.UNA <- SEG.ACK when SND.UNA =< SEG.ACK =< SND.NXT, and the queue pruned
advance_snd_una(t, seg) ==
    IF Seq_le(t.snd_una, seg.ack) /\ Seq_le(seg.ack, t.snd_nxt)
    THEN remove_acknowledged_segments_from_retransmission_queue(
             [t EXCEPT !.snd_una = seg.ack])
    ELSE t

\* Otherwise, fifth step: the ACK field.  The result tells whether the
\* handler returns here (stop) and whether this segment acknowledged our FIN.
arrives_ack(w, e, seg, iss) ==
    LET t == w.tcb[e]
        in_range == Seq_le(t.snd_una, seg.ack) /\ Seq_le(seg.ack, t.snd_nxt)
        beyond == Seq_gt(seg.ack, t.snd_nxt)
        t1 == advance_snd_una(t, seg)
        go(ww) == [w |-> ww, stop |-> FALSE, fin_was_acked |-> FALSE]
        ret(ww) == [w |-> ww, stop |-> TRUE, fin_was_acked |-> FALSE]
    IN  CASE t.state = "SYN_RCVD" ->
                IF ~in_range THEN go(w)
                ELSE IF is_ack_acceptable(t, seg.ack) THEN go(SetState(w, e, "ESTAB"))
                ELSE go(Then(SetState(w, e, "ESTAB"),
                             LAMBDA w1 : send_segment(w1, e, RstSegment(seg.socket_id,
                                                                        seg.ack), FALSE)))
          [] t.state \in {"ESTAB", "CLOSE_WAIT"} ->
                IF beyond THEN ret(SetTCB(w, e, t1)) ELSE go(SetTCB(w, e, t1))
          [] t.state \in {"FIN_WAIT_1", "FIN_WAIT_2"} ->
                LET acked == in_range /\ t.state = "FIN_WAIT_1" /\ is_fin_acknowledged(t1)
                    t2 == IF acked THEN [t1 EXCEPT !.state = "FIN_WAIT_2"] ELSE t1
                IN  [w |-> SetTCB(w, e, t2), stop |-> beyond, fin_was_acked |-> acked]
          [] t.state = "CLOSING" ->
                IF beyond THEN ret(SetTCB(w, e, t1))
                ELSE IF is_fin_acknowledged(t1)
                THEN go(SetTCB(w, e, [t1 EXCEPT !.state = "TIME_WAIT"]))
                ELSE go(SetTCB(w, e, t1))
          [] t.state = "LAST_ACK" ->
                IF is_fin_acknowledged(t) THEN ret(enter_CLOSED(w, e, iss)) ELSE go(w)
          [] OTHER -> go(w)

\* Otherwise, seventh step, the receiving half: the payload is parked under
\* its seq, the buffer reassembled and the window recomputed
store_text(t, seg) ==
    LET t1 == reassemble_received_data(
                  [t EXCEPT !.receive_buffer = buffer_put(@, seg.seq, seg.payload)])
    IN  [t1 EXCEPT !.rcv_wnd = LoRaTCP_MAX_PAYLOAD_SIZE - Cardinality(t1.receive_buffer)]

\* Otherwise, seventh step, the sending half: the ACK, with what send_buffer
\* holds piggybacked
ack_text(w, e, seg) ==
    LET t == w.tcb[e]
        payload_len == Min(Len(t.send_buffer), t.snd_wnd)
    IN  Then(SetTCB(w, e, [t EXCEPT !.send_buffer = Drop(@, payload_len)]),
             LAMBDA w1 : send_segment(w1, e,
                                      AckSegment(seg.socket_id, t.snd_nxt, t.rcv_nxt,
                                                 Take(t.send_buffer, payload_len)),
                                      FALSE))

\* Otherwise, seventh step: the segment text
arrives_text(w, e, seg) ==
    IF w.tcb[e].state \in {"ESTAB", "FIN_WAIT_1", "FIN_WAIT_2"} /\ Len(seg.payload) > 0
    THEN Then(SetTCB(w, e, store_text(w.tcb[e], seg)), LAMBDA w1 : ack_text(w1, e, seg))
    ELSE w

\* Otherwise, eighth step, after the FIN is acknowledged: the state it leads to
fin_transition(w, e, fin_was_acked) ==
    LET t == w.tcb[e]
        time_wait == [cancel_all_timers([t EXCEPT !.state = "TIME_WAIT"])
                         EXCEPT !.time_wait_timer = TRUE]
        t1 == CASE t.state \in {"SYN_RCVD", "ESTAB"} -> [t EXCEPT !.state = "CLOSE_WAIT"]
                [] t.state = "FIN_WAIT_1" ->
                      IF fin_was_acked \/ is_fin_acknowledged(t) THEN time_wait
                      ELSE [t EXCEPT !.state = "CLOSING"]
                [] t.state = "FIN_WAIT_2" -> time_wait
                [] t.state = "TIME_WAIT" -> [t EXCEPT !.time_wait_timer = TRUE]
                [] OTHER -> t
    IN  [SetTCB(w, e, t1) EXCEPT !.tw_fresh = @ \/ t1.time_wait_timer]

\* Otherwise, eighth step: the FIN bit
arrives_fin(w, e, seg, fin_was_acked) ==
    LET t == w.tcb[e]
        t1 == IF Len(seg.payload) > 0
              THEN [t EXCEPT !.receive_buffer = buffer_put(@, seg.seq, seg.payload),
                             !.rcv_nxt = Seq_add(@, Len(seg.payload))]
              ELSE t
        t2 == [t1 EXCEPT !.rcv_nxt = Seq_add(@, 1)]
    IN  IF ~seg.fin_flag THEN w
        ELSE IF t.state \in {"CLOSED", "LISTEN", "SYN_SENT"} THEN w
        ELSE Then(Then(SetTCB(w, e, t2),
                       LAMBDA w1 : send_segment(w1, e,
                                                AckSegment(seg.socket_id, t2.snd_nxt,
                                                           t2.rcv_nxt, <<>>), FALSE)),
                  LAMBDA w2 : fin_transition(w2, e, fin_was_acked))

\* Otherwise, from the fifth step on, a being what the ACK field has led to
after_ack(a, e, seg) ==
    IF a.stop THEN a.w
    ELSE Then(arrives_text(a.w, e, seg),
              LAMBDA w1 : arrives_fin(w1, e, seg, a.fin_was_acked))

\* an Otherwise that drops a segment with the RST bit
arrives_otherwise_rst_dropped(w, e, seg, iss) ==
    LET t == w.tcb[e]
        acceptable == segment_acceptable(t, seg)
    IN  IF ~acceptable THEN arrives_unacceptable(w, e, seg, iss)
        ELSE IF seg.rst_flag THEN w
        ELSE IF is_syn_in_window(t, seg)
        THEN Then(send_segment(w, e, RstSegment(seg.socket_id, t.snd_nxt), FALSE),
                  LAMBDA w1 : enter_CLOSED(w1, e, iss))
        ELSE IF ~seg.ack_flag THEN w
        ELSE Then(arrives_ack(w, e, seg, iss), LAMBDA a : after_ack(a, e, seg))

\* Otherwise (SYN_RCVD, ESTAB, FIN_WAIT_1, FIN_WAIT_2, CLOSE_WAIT, CLOSING,
\* LAST_ACK, TIME_WAIT)
arrives_otherwise(w, e, seg, iss) ==
    LET t == w.tcb[e]
        acceptable == segment_acceptable(t, seg)
    IN  IF ~acceptable THEN arrives_unacceptable(w, e, seg, iss)
        ELSE IF seg.rst_flag
        THEN IF t.state = "SYN_RCVD" /\ ~t.active_open
             THEN SetTCB(w, e, [t EXCEPT !.state = "LISTEN",
                                         !.retransmission_queue = <<>>])
             ELSE enter_CLOSED(w, e, iss)
        ELSE IF is_syn_in_window(t, seg)
        THEN Then(send_segment(w, e, RstSegment(seg.socket_id, t.snd_nxt), FALSE),
                  LAMBDA w1 : enter_CLOSED(w1, e, iss))
        ELSE IF ~seg.ack_flag THEN w
        ELSE Then(arrives_ack(w, e, seg, iss), LAMBDA a : after_ack(a, e, seg))

\* LoRaTCP.handle_event_segment_arrives
handle_event_segment_arrives(w, e, seg, iss) ==
    LET state == w.tcb[e].state
    IN  CASE state = "CLOSED" -> arrives_CLOSED(w, e, seg)
          [] state = "LISTEN" -> arrives_LISTEN(w, e, seg)
          [] state = "SYN_SENT" -> arrives_SYN_SENT(w, e, seg, iss)
          [] OTHER -> arrives_otherwise(w, e, seg, iss)

(***************************************************************************)
(* LoRaTCP.run, the step of the networking thread for one endpoint.        *)
(***************************************************************************)
\* the loop over _incoming_dataframes; an exception of the handler is caught
\* and the frame dropped, what the handler did before it stays done
RECURSIVE process_incoming(_, _, _, _)
process_incoming(w, e, frames, iss) ==
    IF frames = <<>> THEN w
    ELSE LET seg == from_bytes(Head(frames))
         IN  Then(IF validate_segment(seg)
                  THEN handle_event_segment_arrives(w, e, seg, iss)
                  ELSE w,
                  LAMBDA w1 : process_incoming([w1 EXCEPT !.raised = "none"], e,
                                               Tail(frames), iss))

\* the loop over send_buffer
RECURSIVE process_send_buffer(_, _)
process_send_buffer(w, e) ==
    LET t == w.tcb[e]
        payload_len == Min(t.snd_wnd, Len(t.send_buffer))
        new_seg == AckSegment(t.socket_id, t.snd_nxt, t.rcv_nxt,
                              Take(t.send_buffer, payload_len))
        w1 == SetTCB(w, e, [t EXCEPT !.send_buffer = Drop(@, payload_len)])
    IN  IF t.send_buffer = <<>> THEN w
        ELSE Then(Then(w1, LAMBDA w2 : send_segment(w2, e, new_seg, FALSE)),
                  LAMBDA w3 : process_send_buffer(w3, e))

\* run(): the send buffer is worked off in ESTAB, CLOSE_WAIT and FIN_WAIT_1
run_send(w, e) ==
    IF w.tcb[e].state \in {"ESTAB", "CLOSE_WAIT", "FIN_WAIT_1"}
    THEN process_send_buffer(w, e)
    ELSE w

\* run() up to the timers
run_segments(w, e, iss) ==
    Then(process_incoming([w EXCEPT !.incoming[e] = <<>>], e, w.incoming[e], iss),
         LAMBDA w1 : run_send(w1, e))

\* run(), its last line; an exception of the line before it has left run()
run_time_wait(w, e, tw_elapsed, iss) ==
    IF w.raised # "none" THEN w ELSE check_time_wait_timer(w, e, tw_elapsed, iss)

\* LoRaTCP.run
run(w, e, rtx_elapsed, tw_elapsed, iss) ==
    Then(Then(run_segments(w, e, iss),
              LAMBDA w1 : check_retransmission_timer(w1, e, rtx_elapsed, iss)),
         LAMBDA w2 : run_time_wait(w2, e, tw_elapsed, iss))

\* a timer holds a start time that lies before this call of run()
rtx_armed(w, e) == w.tcb[e].retransmission_timeout_timer /\ ~w.rtx_fresh
tw_armed(w, e) == w.raised = "none" /\ w.tcb[e].time_wait_timer /\ ~w.tw_fresh

\* the retransmission timer runs out in this run() / the time-wait timer does
rtx_fires(w, e, iss) == Then(run_segments(w, e, iss), LAMBDA w1 : rtx_armed(w1, e))
tw_fires(w, e, rtx_elapsed, iss) ==
    Then(Then(run_segments(w, e, iss),
              LAMBDA w1 : check_retransmission_timer(w1, e, rtx_elapsed, iss)),
         LAMBDA w2 : tw_armed(w2, e))

(***************************************************************************)
(* Actions.                                                                *)
(***************************************************************************)
NoOp == [op |-> "none", ep |-> "none", state |-> "none", snd_nxt |-> None,
         rcv_nxt |-> None, sent |-> <<>>, raised |-> "none", data |-> <<>>,
         rtx_expired |-> FALSE, tw_expired |-> FALSE, bufsize |-> 0,
         mode |-> "none", rx |-> <<>>, tx |-> <<>>, out |-> <<>>]

\* the record of an operation op on endpoint e that turns the state into w:
\* the state, snd_nxt and rcv_nxt it found, what it sent and what it raised
Op(op, e, w) ==
    [NoOp EXCEPT !.op = op, !.ep = e, !.state = tcb[e].state,
                 !.snd_nxt = tcb[e].snd_nxt, !.rcv_nxt = tcb[e].rcv_nxt,
                 !.sent = w.sent, !.raised = w.raised]

\* the program's state becomes world w
Becomes(w) ==
    /\ tcb' = w.tcb
    /\ incoming_dataframes' = w.incoming
    /\ retransmission_attempts' = w.attempts
    /\ last_retransmission_sequence_number' = w.last_seq
    /\ sockets' = w.sockets
    /\ listening_sockets' = w.listening
    /\ INSTANCES' = w.instances
    /\ SOCKET_ID_COUNTER' = w.counter
    /\ link' = w.link
    /\ transmitQueue' = w.txq
    /\ UNCHANGED <<duty_cycle_timer, transmit_time, last_communication, clock,
                   data_link, pending>>

\* a call that changes nothing but its own outcome is explored only in the
\* runs whose budget says so
Explored(w) == budget.idle_calls \/ w.raised = "none"

\* nothing is on its way: no frame in flight, no frame waiting for run()
Quiet == link = {} /\ \A e \in Endpoints : incoming_dataframes[e] = <<>>

\* a call op of e's application that turns the state into w
Called(op, e, w) ==
    /\ Explored(w)
    /\ Becomes(w)
    /\ last' = Op(op, e, w)

\* the sensor application calls connect()
Connect ==
    /\ \E w \in {connect(World, "s")} : Called("connect", "s", w)
    /\ UNCHANGED <<running, link_down, app_sent, app_rcvd, budget>>

\* the gateway application calls listen()
Listen ==
    /\ SOCKET_ID_COUNTER["gateway"] <= MaxListen
    /\ \E iss \in IssChoices("g") :
          \E w \in {listen(World, "g", iss)} : Called("listen", "g", w)
    /\ UNCHANGED <<running, link_down, app_sent, app_rcvd, budget>>

\* The gateway application, its listen() on "g" having returned with a
\* connection, goes round its loop: it constructs the next endpoint and
\* calls listen() on it.
NewListener ==
    /\ budget.listeners > 0
    /\ tcb["g"].state \notin {"CLOSED", "LISTEN"}
    /\ \E iss \in IssChoices("g2") :
          \E w \in {Then(construct(World, "g2", iss),
                         LAMBDA w1 : listen(w1, "g2", iss))} :
             Called("listen", "g2", w)
    /\ budget' = [budget EXCEPT !.listeners = @ - 1]
    /\ UNCHANGED <<running, link_down, app_sent, app_rcvd>>

\* send(data) has turned the state into w
Sent(e, data, w) ==
    /\ Explored(w)
    /\ Becomes(w)
    /\ last' = [Op("send", e, w) EXCEPT !.data = data]
    /\ app_sent' = IF w.raised = "none" THEN [app_sent EXCEPT ![e] = @ \o data]
                   ELSE app_sent

\* an application calls send() with the next bytes of its stream
Send(e) ==
    /\ Len(app_sent[e]) + budget.chunk <= budget.bytes[e]
    /\ LET data == SubSeq(AppData(e), Len(app_sent[e]) + 1,
                          Len(app_sent[e]) + budget.chunk)
       IN  \E w \in {send(World, e, data)} : Sent(e, data, w)
    /\ UNCHANGED <<running, link_down, app_rcvd, budget>>

\* read(bufsize) has turned the state into w
Received(e, bufsize, mode, w) ==
    LET data == IF w.raised = "none" THEN read_data(tcb[e], bufsize, mode) ELSE <<>>
    IN  /\ budget.idle_calls \/ data # <<>>
        /\ Becomes(w)
        /\ last' = [Op("read", e, w) EXCEPT !.data = data, !.bufsize = bufsize,
                                            !.mode = mode]
        /\ app_rcvd' = [app_rcvd EXCEPT ![e] = @ \o data]

\* an application calls read(bufsize)
Recv(e) ==
    /\ \E bufsize \in budget.bufsizes, mode \in budget.modes :
          /\ read_returns(tcb[e], mode)
          /\ \E w \in {read(World, e, bufsize, mode)} : Received(e, bufsize, mode, w)
    /\ UNCHANGED <<running, link_down, app_sent, budget>>

\* close() has turned the state into w
Closed(e, w) ==
    /\ Becomes(w)
    /\ last' = Op("close", e, w)

\* an application calls close()
Close(e) ==
    /\ budget.close[e] > 0
    /\ \E iss \in IssChoices(e) : \E w \in {close(World, e, iss)} : Closed(e, w)
    /\ budget' = [budget EXCEPT !.close[e] = @ - 1]
    /\ UNCHANGED <<running, link_down, app_sent, app_rcvd>>

\* run() has turned the state into w; an exception that leaves run() ends the
\* networking thread
Ran(e, rtx_elapsed, tw_elapsed, w) ==
    /\ Becomes(w)
    /\ last' = [Op("run", e, w) EXCEPT !.rtx_expired = rtx_elapsed,
                                       !.tw_expired = tw_elapsed]
    /\ running' = [running EXCEPT ![NodeOf(e)] = (w.raised = "none")]

\* the networking thread of e's node calls e.run(), and finds that the
\* retransmission timeout has run out (rtx_elapsed), the time-wait timeout has
\* (tw_elapsed); a timeout that has run out is one of a timer that was running
\* when run() was called and has not been started anew since.  In a patient
\* run a timeout runs out only when nothing is on its way, and, the timeouts
\* of the two endpoints being the same, not twice in a row at one endpoint
\* while the timer of the other is running.
RunWith(e, rtx_elapsed, tw_elapsed) ==
    /\ running[NodeOf(e)]
    /\ list_has(INSTANCES[NodeOf(e)], e)
    /\ \E iss \in IssChoices(e) :
          /\ rtx_elapsed => /\ budget.expiries > 0
                            /\ budget.patient =>
                                  /\ Quiet
                                  /\ budget.fired = e =>
                                        ~tcb[Peer(e)].retransmission_timeout_timer
                            /\ tcb[e].retransmission_timeout_timer
                            /\ rtx_fires(World, e, iss)
          /\ tw_elapsed => /\ tcb[e].time_wait_timer
                           /\ tw_fires(World, e, rtx_elapsed, iss)
          /\ \E w \in {run(World, e, rtx_elapsed, tw_elapsed, iss)} :
                Ran(e, rtx_elapsed, tw_elapsed, w)
    /\ budget' = IF rtx_elapsed
                 THEN [budget EXCEPT !.expiries = Less(@),
                                     !.fired = IF budget.patient THEN e ELSE @]
                 ELSE budget
    /\ UNCHANGED <<link_down, app_sent, app_rcvd>>

\* the networking thread of e's node calls e.run()
Run(e) == \E rtx_elapsed, tw_elapsed \in BOOLEAN : RunWith(e, rtx_elapsed, tw_elapsed)

\* the data-link of the addressed node receives frame f and hands it to an
\* endpoint; keep: the link delivers the frame once more later (a duplicate).
\* A frame that no endpoint takes is dropped, which is one of the losses.
Deliver(f) ==
    /\ f \in link
    /\ \E keep \in BOOLEAN :
          /\ keep => budget.dup > 0
          /\ dispatch(f.to, f) = "none" => ~keep /\ budget.losses > 0
          /\ link' = IF keep THEN link ELSE link \ {f}
          /\ budget' = IF keep THEN [budget EXCEPT !.dup = @ - 1]
                       ELSE IF dispatch(f.to, f) = "none"
                       THEN [budget EXCEPT !.losses = Less(@)]
                       ELSE budget
    /\ LET target == dispatch(f.to, f)
       IN  IF target = "none"
           THEN UNCHANGED incoming_dataframes
           ELSE /\ Len(incoming_dataframes[target]) < MaxIncoming
                /\ incoming_dataframes' =
                      [incoming_dataframes EXCEPT ![target] =
                          Append(@, [b0 |-> f.b0, seq |-> f.seq, ack |-> f.ack,
                                     payload |-> f.payload])]
    /\ last' = NoOp
    /\ UNCHANGED <<datalink_vars, pending>>
    /\ UNCHANGED <<tcb, retransmission_attempts, last_retransmission_sequence_number,
                   sockets, listening_sockets, INSTANCES, SOCKET_ID_COUNTER,
                   running, link_down, app_sent, app_rcvd>>

\* the link loses frame f
Lose(f) ==
    /\ f \in link
    /\ budget.losses > 0
    /\ link' = link \ {f}
    /\ budget' = [budget EXCEPT !.losses = Less(@)]
    /\ last' = NoOp
    /\ UNCHANGED <<datalink_vars, pending>>
    /\ UNCHANGED <<tcb, incoming_dataframes, retransmission_attempts,
                   last_retransmission_sequence_number, sockets, listening_sockets,
                   INSTANCES, SOCKET_ID_COUNTER, running, link_down, app_sent,
                   app_rcvd>>

\* the peer goes out of reach: from now on every frame is lost
LinkDown ==
    /\ budget.blackout
    /\ ~link_down
    /\ link_down' = TRUE
    /\ link' = {}
    /\ last' = NoOp
    /\ UNCHANGED <<datalink_vars, pending>>
    /\ UNCHANGED <<tcb, incoming_dataframes, retransmission_attempts,
                   last_retransmission_sequence_number, sockets, listening_sockets,
                   INSTANCES, SOCKET_ID_COUNTER, running, app_sent, app_rcvd, budget>>

\* Segments that did not come from the peer's endpoint as it is now (the
\* radio is a shared medium, and the link holds back frames of earlier
\* moments): the sequence numbers around e's receive window and the
\* acknowledgment numbers around its send window, by kind of segment.
NearSeq(e) ==
    IF tcb[e].rcv_nxt = None THEN {0}
    ELSE {Seq_add(tcb[e].rcv_nxt, d) : d \in {-1, 0, 1, tcb[e].rcv_wnd}}
NearAck(e) ==
    IF tcb[e].snd_una = None THEN {0}
    ELSE {Seq_add(tcb[e].snd_una, -1), tcb[e].snd_una, Seq_add(tcb[e].snd_una, 1),
          tcb[e].snd_nxt, Seq_add(tcb[e].snd_nxt, 1)}
ForeignPayload == <<90, 91>>
ForeignSegments(e, kind) ==
    LET id == IF tcb[e].socket_id = None THEN 0 ELSE tcb[e].socket_id
    IN  CASE kind = "RST" -> {RstSegment(id, seq) : seq \in NearSeq(e)}
          [] kind = "ACK" ->
                {AckSegment(id, seq, ack, <<>>) : seq \in NearSeq(e), ack \in NearAck(e)}
          [] kind = "DATA" ->
                {AckSegment(id, seq, tcb[e].snd_una, Take(ForeignPayload, k)) :
                    seq \in NearSeq(e), k \in 1..Len(ForeignPayload)}
          [] kind = "FIN" -> {FinSegment(id, seq, tcb[e].snd_una) : seq \in NearSeq(e)}
          [] kind = "FIN+DATA" ->
                {Segment(id, seq, ack, FALSE, TRUE, TRUE, FALSE, Take(ForeignPayload, k)) :
                    seq \in NearSeq(e), ack \in NearAck(e), k \in 1..Len(ForeignPayload)}
          [] OTHER -> {}

\* the data-link of e's node receives a frame that holds such a segment and
\* hands it to the endpoint the socket-id leads to
Arrive(e) ==
    /\ budget.foreign > 0
    /\ \E kind \in budget.kinds : \E seg \in ForeignSegments(e, kind) :
          LET f == Frame(NodeOf(e), to_bytes(seg))
              target == dispatch(NodeOf(e), f)
          IN  /\ target # "none"
              /\ Len(incoming_dataframes[target]) < MaxIncoming
              /\ incoming_dataframes' =
                    [incoming_dataframes EXCEPT ![target] =
                        Append(@, [b0 |-> f.b0, seq |-> f.seq, ack |-> f.ack,
                                   payload |-> f.payload])]
    /\ budget' = [budget EXCEPT !.foreign = @ - 1]
    /\ last' = NoOp
    /\ UNCHANGED <<datalink_vars, pending>>
    /\ UNCHANGED <<tcb, retransmission_attempts, last_retransmission_sequence_number,
                   sockets, listening_sockets, INSTANCES, SOCKET_ID_COUNTER,
                   running, link, link_down, app_sent, app_rcvd>>

(***************************************************************************)
(* The gateway's data-link worker and its clock.                           *)
(***************************************************************************)
\* micropython_time.ticks_add: (ticks + delta) & 0x7FFFFFFF, worked out
\* without leaving 32 bits
ticks_add(ticks, delta) ==
    IF ticks > TICKS_MASK - delta THEN ticks - (TICKS_MASK - delta) - 1
    ELSE ticks + delta

\* micropython_time.ticks_diff: (ticks1 - ticks2) & 0x7FFFFFFF, minus
\* 0x80000000 when above 0x3FFFFFFF
ticks_diff(ticks1, ticks2) ==
    LET diff == IF ticks1 >= ticks2 THEN ticks1 - ticks2
                ELSE (ticks1 - ticks2 + TICKS_MASK) + 1
    IN  IF diff > TICKS_DIFF_MAX THEN (diff - TICKS_MASK) - 1 ELSE diff

\* SensorState.is_active, for a sensor last heard at last_comm
is_active(now, last_comm) ==
    last_comm # None /\ ticks_diff(now, last_comm) <= SENSOR_ACTIVE_TIMEOUT

\* a gate that lets one more millisecond through before it shuts
duty_cycle_exceeded_late(now, timer, transmitted) ==
    ticks_diff(now, timer) < DUTY_CYCLE_WINDOW_MS
        /\ transmitted > DUTY_CYCLE_BUDGET_MS + 1

\* LoRaDataLink.run: the gate is shut (transmit budget spent, window running)
duty_cycle_exceeded(now, timer, transmitted) ==
    ticks_diff(now, timer) < DUTY_CYCLE_WINDOW_MS /\ transmitted > DUTY_CYCLE_BUDGET_MS

\* LoRaDataLink.run: the window is over
duty_cycle_elapsed(now, timer) == ticks_diff(now, timer) >= DUTY_CYCLE_WINDOW_MS

\* LoRaDataLink.run on the gateway.  rx is what the radio has received (one
\* frame or nothing), airtime the time the driver's send takes.  The frame
\* received is handed to its endpoint and the sensor is stamped as heard; with
\* the gate shut the call returns there; else a window that is over is
\* restarted, and the first queued frame goes on the air if the sensor is
\* active.
DataLinkRunWith(rx, airtime) ==
    LET n == "gateway"
        target == IF rx = <<>> THEN "none" ELSE dispatch(n, rx[1])
        last_comm == IF target # "none" THEN clock ELSE last_communication
        shut == duty_cycle_exceeded(clock, duty_cycle_timer, transmit_time)
        reset == ~shut /\ duty_cycle_elapsed(clock, duty_cycle_timer)
        sends == /\ ~shut
                 /\ Len(transmitQueue) > 0
                 /\ is_active(clock, last_comm)
    IN  /\ budget.queued
        /\ running[n]
        /\ rx # <<>> => rx[1] \in link /\ rx[1].to = n
        /\ target # "none" => Len(incoming_dataframes[target]) < MaxIncoming
        /\ incoming_dataframes' =
              IF target = "none" THEN incoming_dataframes
              ELSE [incoming_dataframes EXCEPT ![target] =
                       Append(@, [b0 |-> rx[1].b0, seq |-> rx[1].seq,
                                  ack |-> rx[1].ack, payload |-> rx[1].payload])]
        /\ last_communication' = last_comm
        /\ duty_cycle_timer' = IF reset THEN clock ELSE duty_cycle_timer
        /\ transmit_time' = (IF reset THEN 0 ELSE transmit_time)
                               + (IF sends THEN airtime ELSE 0)
        /\ transmitQueue' = IF sends THEN Tail(transmitQueue) ELSE transmitQueue
        /\ link' = LET heard == link \ {rx[i] : i \in 1..Len(rx)}
                   IN  IF sends THEN transmit(heard, Head(transmitQueue)) ELSE heard
        /\ clock' = IF sends THEN ticks_add(clock, airtime) ELSE clock
        /\ last' = [NoOp EXCEPT !.op = "datalink_run", !.rx = rx,
                                !.tx = IF sends THEN <<Head(transmitQueue)>> ELSE <<>>]
        /\ UNCHANGED <<tcb, retransmission_attempts,
                       last_retransmission_sequence_number, sockets,
                       listening_sockets, INSTANCES, SOCKET_ID_COUNTER, running,
                       link_down, app_sent, app_rcvd, data_link, pending, budget>>

\* the networking thread of the gateway calls data_link.run()
DataLinkRun ==
    \E rx \in {<<>>} \cup {<<f>> : f \in link} :
        \E airtime \in budget.airtimes : DataLinkRunWith(rx, airtime)

\* Time passes on the gateway.  The worker calling run() all the time, the
\* clock is never more than one step past the end of the window at a call.
Tick ==
    /\ budget.ticks > 0
    /\ ~duty_cycle_elapsed(clock, duty_cycle_timer)
    /\ \E d \in TickDurations : clock' = ticks_add(clock, d)
    /\ budget' = [budget EXCEPT !.ticks = @ - 1]
    /\ last' = NoOp
    /\ UNCHANGED <<tcb, incoming_dataframes, retransmission_attempts,
                   last_retransmission_sequence_number, sockets, listening_sockets,
                   INSTANCES, SOCKET_ID_COUNTER, running, link, link_down,
                   app_sent, app_rcvd, transmitQueue, duty_cycle_timer,
                   transmit_time, last_communication, data_link, pending>>

\* LoRaDataLink._init_once, with the lists of SensorState and of the
\* endpoints registered.  An endpoint is known here by its socket-id, by the
\* frames in its _incoming_dataframes and by peer, the address of the sensor
\* whose SYN it has taken (history).  radio holds the frames the driver has
\* sent and resets counts the calls of machine.reset() (history).
OwnAddress == <<2, 0, 0, 0, 0, 9>>
init_once(mode) ==
    [mode |-> mode,
     sensor_address |-> IF mode = "sensor" THEN OwnAddress ELSE <<>>,
     sockets |-> <<>>, listening_sockets |-> <<>>,
     SensorState_INSTANCES |-> <<>>,
     transmission_block |-> FALSE, busy_timeout_retries |-> 0,
     radio |-> <<>>, resets |-> 0]

\* The state after both nodes have constructed their endpoint (LoRaTCP()),
\* with what the environment may do in the run.  The sensor's endpoint is the
\* (b.sensor_id + 1)-th TCB of its process; "g2" is not constructed yet.
InitWith(b) ==
    /\ \E iss_s \in IssChoices("s"), iss_g \in IssChoices("g") :
          tcb = [e \in AllEndpoints |->
                    IF e = "s" THEN NewTCB(b.sensor_id, iss_s)
                    ELSE IF e = "g" THEN NewTCB(0, iss_g)
                    ELSE NewTCB(None, iss_g)]
    /\ incoming_dataframes = [e \in AllEndpoints |-> <<>>]
    /\ retransmission_attempts = [e \in AllEndpoints |-> 0]
    /\ last_retransmission_sequence_number = [e \in AllEndpoints |-> None]
    /\ sockets = [n \in Nodes |-> <<>>]
    /\ listening_sockets = [n \in Nodes |-> <<>>]
    /\ INSTANCES = [n \in Nodes |-> IF n = "sensor" THEN <<"s">> ELSE <<"g">>]
    /\ SOCKET_ID_COUNTER = [n \in Nodes |-> IF n = "sensor" THEN b.sensor_id + 1 ELSE 1]
    /\ running = [n \in Nodes |-> TRUE]
    /\ link = {}
    /\ link_down = FALSE
    /\ app_sent = [e \in AllEndpoints |-> <<>>]
    /\ app_rcvd = [e \in AllEndpoints |-> <<>>]
    /\ transmitQueue = <<>>
    /\ duty_cycle_timer = b.clock
    /\ transmit_time = 0
    /\ last_communication = None
    /\ clock = b.clock
    /\ data_link = init_once(IF b.probe.fn = "LoRaDataLink" THEN b.probe.mode
                             ELSE "gateway")
    /\ pending = [thread \in {"application", "worker"} |-> <<>>]
    /\ budget = b
    /\ last = NoOp

NoBudget ==
    [bytes |-> [e \in Endpoints |-> 0], chunk |-> 1, expiries |-> 0, dup |-> 0,
     losses |-> 0, close |-> [e \in Endpoints |-> 0], idle_calls |-> FALSE,
     patient |-> FALSE, fired |-> "none", blackout |-> FALSE, link |-> MaxLink,
     foreign |-> 0, kinds |-> {}, bufsizes |-> {1, LoRaTCP_MAX_PAYLOAD_SIZE},
     modes |-> {"nonblocking"}, sensor_id |-> 0, listeners |-> 0,
     queued |-> FALSE, clock |-> 0, ticks |-> 0, airtimes |-> {},
     probe |-> [fn |-> "none"]]

(***************************************************************************)
(* Spec: connection set-up and data transfer over a link that loses,       *)
(* duplicates and reorders.                                                *)
(***************************************************************************)
\* Two kinds of run: the sensor writes MaxSensorBytes bytes one by one and the
\* gateway writes nothing, or each side writes MaxGatewayBytes bytes.
DataBudgets ==
    {[NoBudget EXCEPT !.bytes = bytes, !.expiries = MaxExpiries, !.dup = MaxDup,
                      !.losses = Unlimited] :
        bytes \in {[e \in Endpoints |-> IF e = "s" THEN MaxSensorBytes ELSE 0],
                   [e \in Endpoints |-> MaxGatewayBytes]}}

Init == \E b \in DataBudgets : InitWith(b)

Next ==
    \/ Connect
    \/ Listen
    \/ \E e \in Endpoints : Send(e)
    \/ \E e \in Endpoints : Recv(e)
    \/ \E e \in Endpoints : Run(e)
    \/ \E f \in link : Deliver(f)
    \/ \E f \in link : Lose(f)

Spec == Init /\ [][Next]_vars

(***************************************************************************)
(* SpecFair: the same program over a link that loses at most MaxLosses     *)
(* frames and duplicates none, with timeouts that are longer than a frame  *)
(* is on its way.  The worker loop calls run() of every endpoint and the   *)
(* data-link's run() again and again, and a timer that is running has run  *)
(* out at some later call.                                                 *)
(***************************************************************************)
\* Two kinds of run: the sensor writes MaxFairBytes bytes, or the gateway does.
FairBudgets ==
    {[NoBudget EXCEPT !.bytes = [e \in Endpoints |-> IF e = a THEN MaxFairBytes ELSE 0],
                      !.expiries = Unlimited, !.losses = MaxLosses,
                      !.patient = TRUE] : a \in Endpoints}

InitFair == \E b \in FairBudgets : InitWith(b)

Fairness ==
    /\ \A e \in Endpoints : WF_vars(Run(e))
    /\ \A e \in Endpoints : WF_vars(\E tw_elapsed \in BOOLEAN : RunWith(e, TRUE, tw_elapsed))
    /\ WF_vars(\E f \in link : Deliver(f))

SpecFair == InitFair /\ [][Next]_vars /\ Fairness

(***************************************************************************)
(* SpecClose: the applications also call close(), at most MaxClose times   *)
(* each, at any moment of the set-up, the transfer of one byte or the      *)
(* tear-down.                                                              *)
(***************************************************************************)
CloseBudgets ==
    {[NoBudget EXCEPT !.bytes = [e \in Endpoints |-> IF e = "s" THEN 1 ELSE 0],
                      !.close = [e \in Endpoints |-> MaxClose],
                      !.expiries = MaxExpiries, !.losses = Unlimited]}

InitClose == \E b \in CloseBudgets : InitWith(b)

NextClose ==
    \/ Next
    \/ \E e \in Endpoints : Close(e)

SpecClose == InitClose /\ [][NextClose]_vars

(***************************************************************************)
(* SpecCap: the peer goes out of reach at some moment of the set-up or of  *)
(* the transfer of a byte, and the retransmission timer of an endpoint     *)
(* runs out again and again, up to the cap and beyond; the applications'   *)
(* calls that fail are part of the run.                                    *)
(***************************************************************************)
\* expiries enough for an endpoint to come to the cap and go one beyond it
CapExpiries == MAX_RETRANSMISSION_ATTEMPTS + 2

CapBudgets ==
    {[NoBudget EXCEPT !.bytes = [e \in Endpoints |-> IF e = "s" THEN 2 ELSE 0],
                      !.expiries = CapExpiries, !.losses = 1, !.patient = TRUE,
                      !.blackout = TRUE, !.idle_calls = TRUE]}

InitCap == \E b \in CapBudgets : InitWith(b)

NextCap ==
    \/ Next
    \/ LinkDown

SpecCap == InitCap /\ [][NextCap]_vars

(***************************************************************************)
(* SpecReasm: the sensor writes MaxReasmSegments times ReasmChunk bytes,   *)
(* run() cuts them into segments, and the link, which loses and doubles    *)
(* nothing, hands the segments over in any order.                          *)
(***************************************************************************)
ReasmBudgets ==
    {[NoBudget EXCEPT !.bytes = [e \in Endpoints |->
                                    IF e = "s" THEN MaxReasmSegments * ReasmChunk ELSE 0],
                      !.chunk = ReasmChunk, !.link = MaxReasmSegments]}

InitReasm == \E b \in ReasmBudgets : InitWith(b)

NextReasm ==
    \/ Connect
    \/ Listen
    \/ \E e \in Endpoints : Send(e)
    \/ \E e \in Endpoints : Recv(e)
    \/ \E e \in Endpoints : Run(e)
    \/ \E f \in link : Deliver(f)

SpecReasm == InitReasm /\ [][NextReasm]_vars

(***************************************************************************)
(* SpecReset: set-up, the transfer of a byte and tear-down over a link     *)
(* that loses nothing, with MaxForeign RSTs that arrive at any moment; the *)
(* applications' calls that fail are part of the run.                      *)
(***************************************************************************)
MaxForeign == 1
\* the largest socket-id the sensor's endpoint starts with
MaxSocketId == 3

ResetBudgets ==
    {[NoBudget EXCEPT !.bytes = [e \in Endpoints |-> IF e = "s" THEN 1 ELSE 0],
                      !.close = [e \in Endpoints |-> MaxClose],
                      !.idle_calls = TRUE,
                      !.foreign = MaxForeign, !.kinds = {"RST"}]}

InitReset == \E b \in ResetBudgets : InitWith(b)

NextReset ==
    \/ Connect
    \/ Listen
    \/ \E e \in Endpoints : Send(e)
    \/ \E e \in Endpoints : Recv(e)
    \/ \E e \in Endpoints : Close(e)
    \/ \E e \in Endpoints : Run(e)
    \/ \E f \in link : Deliver(f)
    \/ \E e \in Endpoints : Arrive(e)

SpecReset == InitReset /\ [][NextReset]_vars

(***************************************************************************)
(* SpecRecv: the sensor writes RecvBytes bytes at once, and the            *)
(* applications call read() with a small, a middle and a large bufsize on  *)
(* sockets that do not block, that block for a time and that block for     *)
(* good; the calls that fail are part of the run.                          *)
(***************************************************************************)
RecvBytes == 3

RecvBudgets ==
    {[NoBudget EXCEPT !.bytes = [e \in Endpoints |-> IF e = "s" THEN RecvBytes ELSE 0],
                      !.chunk = RecvBytes, !.idle_calls = TRUE,
                      !.bufsizes = {1, RecvBytes - 1, LoRaTCP_MAX_PAYLOAD_SIZE},
                      !.modes = RecvModes]}

InitRecv == \E b \in RecvBudgets : InitWith(b)

NextRecv ==
    \/ Connect
    \/ Listen
    \/ \E e \in Endpoints : Send(e)
    \/ \E e \in Endpoints : Recv(e)
    \/ \E e \in Endpoints : Run(e)
    \/ \E f \in link : Deliver(f)

SpecRecv == InitRecv /\ [][NextRecv]_vars

(***************************************************************************)
(* SpecAck: the sensor writes AckChunk bytes at once, which run() sends as *)
(* one segment and sends again when the timer runs out, and MaxForeign     *)
(* ACKs arrive at any moment with any number around the send window: old,  *)
(* duplicate, inside the segment, for data not yet sent.                   *)
(***************************************************************************)
AckChunk == 2

AckBudgets ==
    {[NoBudget EXCEPT !.bytes = [e \in Endpoints |-> IF e = "s" THEN AckChunk ELSE 0],
                      !.chunk = AckChunk, !.expiries = MaxExpiries,
                      !.foreign = MaxForeign, !.kinds = {"ACK"}]}

InitAck == \E b \in AckBudgets : InitWith(b)

NextAck ==
    \/ Connect
    \/ Listen
    \/ \E e \in Endpoints : Send(e)
    \/ \E e \in Endpoints : Recv(e)
    \/ \E e \in Endpoints : Run(e)
    \/ \E f \in link : Deliver(f)
    \/ \E e \in Endpoints : Arrive(e)

SpecAck == InitAck /\ [][NextAck]_vars

(***************************************************************************)
(* SpecIds: the gateway serves one sensor after another.  The sensor's      *)
(* endpoint is any of the first MaxSocketId + 1 it has constructed          *)
(* (umqtt/lora.py constructs one for each MQTT connection), and the gateway *)
(* opens its next listening endpoint once the first has a connection.       *)
(***************************************************************************)
IdBudgets ==
    {[NoBudget EXCEPT !.sensor_id = id, !.listeners = 1, !.expiries = MaxExpiries,
                      !.losses = MaxLosses,
                      !.bytes = [e \in Endpoints |-> IF e = "s" THEN 1 ELSE 0]] :
        id \in 0..MaxSocketId}

InitIds == \E b \in IdBudgets : InitWith(b)

NextIds ==
    \/ Connect
    \/ Listen
    \/ NewListener
    \/ \E e \in Endpoints : Send(e)
    \/ \E e \in Endpoints : Recv(e)
    \/ \E e \in AllEndpoints : Run(e)
    \/ \E f \in link : Deliver(f)
    \/ \E f \in link : Lose(f)

SpecIds == InitIds /\ [][NextIds]_vars

(***************************************************************************)
(* SpecDuty: connection set-up with retransmissions, the gateway's frames  *)
(* waiting in the transmit queue for the data-link worker, whose send      *)
(* takes a long time on air, while time passes in steps of half a window   *)
(* or of the sensor-active timeout.                                        *)
(* The gateway's clock starts half a window before ticks_ms() wraps round. *)
(***************************************************************************)
DutyBudgets ==
    {[NoBudget EXCEPT !.queued = TRUE, !.clock = c, !.ticks = MaxTicks,
                      !.airtimes = AirTimes, !.expiries = MaxExpiries + 1] :
        c \in {TICKS_MASK - HalfWindow}}

InitDuty == \E b \in DutyBudgets : InitWith(b)

NextDuty ==
    \/ Connect
    \/ Listen
    \/ \E e \in Endpoints : Run(e)
    \/ \E f \in link : f.to = "sensor" /\ Deliver(f)
    \/ DataLinkRun
    \/ Tick

SpecDuty == InitDuty /\ [][NextDuty]_vars

(***************************************************************************)
(* SpecWindow: the acceptability test of an arriving segment, applied to   *)
(* receive windows of 0, 1, 3 and 242 at several places of the sequence    *)
(* space, segments of 0 to 3 bytes and sequence numbers from before the    *)
(* window to behind it.                                                    *)
(***************************************************************************)
WindowRcvNxt == {0, 5, 32767, 32768, 40000, 65535}
WindowRcvWnd == {0, 1, 3, TCB_MAX_PAYLOAD_SIZE + 1}
WindowSegLen == 0..3
WindowOffsets == -4..4
WindowProbes ==
    {[fn |-> "segment_acceptable", rcv_nxt |-> n, rcv_wnd |-> w, len |-> l,
      seq |-> Seq_add(n, d)] :
        n \in WindowRcvNxt, w \in WindowRcvWnd, l \in WindowSegLen,
        d \in WindowOffsets \cup {x + y : x \in WindowRcvWnd, y \in -2..1}}

\* the TCB and the segment of a probe: an endpoint in ESTABLISHED that
\* expects rcv_nxt with the window rcv_wnd, and a segment of len bytes at seq
ProbedTCB(p) ==
    [NewTCB(0, 0) EXCEPT !.state = "ESTAB", !.rcv_nxt = p.rcv_nxt,
                         !.rcv_wnd = p.rcv_wnd, !.snd_una = 1, !.snd_nxt = 1]
ProbedSegment(p) == AckSegment(0, p.seq, 1, Take(AppData("s"), p.len))

\* the worker applies the test to the segment
Accept ==
    /\ budget.probe.fn = "segment_acceptable"
    /\ last.op = "none"
    /\ last' = [NoOp EXCEPT
                   !.op = "segment_acceptable",
                   !.out = <<segment_acceptable(ProbedTCB(budget.probe),
                                                ProbedSegment(budget.probe))>>]
    /\ UNCHANGED <<tcb, incoming_dataframes, retransmission_attempts,
                   last_retransmission_sequence_number, sockets, listening_sockets,
                   INSTANCES, SOCKET_ID_COUNTER, running, link, link_down,
                   app_sent, app_rcvd, budget>>
    /\ UNCHANGED <<datalink_vars, pending>>

InitWindow == \E p \in WindowProbes : InitWith([NoBudget EXCEPT !.probe = p])

NextWindow == Accept

SpecWindow == InitWindow /\ [][NextWindow]_vars

(***************************************************************************)
(* SpecSeq: the operations of class Seq, applied to pairs of 16-bit        *)
(* numbers at the ends and in the middle of the sequence space, next to    *)
(* each other, half the space apart and all but the whole space apart, and *)
(* to offsets below, inside and above the space.                           *)
(***************************************************************************)
SeqValues == {0, 1, 100, SEQ_HALF - 1, SEQ_HALF, SEQ_HALF + 1, SEQ_MOD - 1}
SeqDistances == {0, 1, 2, SEQ_HALF - 1, SEQ_HALF, SEQ_HALF + 1, SEQ_MOD - 1}
SeqOffsets == {-SEQ_MOD - 1, -SEQ_MOD, -1, 0, 1, 241, SEQ_MOD, SEQ_MOD + 5}
SeqProbes ==
    {[fn |-> "Seq", a |-> a, b |-> Seq_add(a, d), k |-> k] :
        a \in SeqValues, d \in SeqDistances, k \in SeqOffsets}

\* a < b, a >= b, a + (b - a), a - a and a + k are worked out
SeqOps ==
    /\ budget.probe.fn = "Seq"
    /\ last.op = "none"
    /\ LET a == budget.probe.a
           b == budget.probe.b
           k == budget.probe.k
       IN  last' = [NoOp EXCEPT
                      !.op = "Seq",
                      !.out = <<Seq_lt(a, b), Seq_ge(a, b),
                                Seq_add(a, Seq_sub(b, a)), Seq_sub(a, a),
                                Seq_add(a, k)>>]
    /\ UNCHANGED <<tcb, incoming_dataframes, retransmission_attempts,
                   last_retransmission_sequence_number, sockets, listening_sockets,
                   INSTANCES, SOCKET_ID_COUNTER, running, link, link_down,
                   app_sent, app_rcvd, budget>>
    /\ UNCHANGED <<datalink_vars, pending>>

InitSeq == \E p \in SeqProbes : InitWith([NoBudget EXCEPT !.probe = p])

NextSeq == SeqOps

SpecSeq == InitSeq /\ [][NextSeq]_vars

(***************************************************************************)
(* SpecFrame: class LoRaDataFrame.  Byte strings are sequences of numbers  *)
(* 0..255; a frame that cannot be built is the record with error set.      *)
(***************************************************************************)
DataFrameMaxPayloadLength == 248
DATAFRAME_TYPE == {0, 1}

FrameError == [error |-> "ValueError", address |-> <<>>, data_type |-> None, payload |-> <<>>]

\* LoRaDataFrame.__init__
LoRaDataFrame(address, data_type, payload) ==
    IF Len(address) # 6 THEN FrameError
    ELSE IF data_type \notin DATAFRAME_TYPE THEN FrameError
    ELSE IF Len(payload) > DataFrameMaxPayloadLength THEN FrameError
    ELSE [error |-> "", address |-> address, data_type |-> data_type, payload |-> payload]

LoRaDataFrame_to_bytes(f) == f.address \o <<f.data_type>> \o f.payload

LoRaDataFrame_from_bytes_shifted(data) ==
    IF Len(data) < 7 THEN FrameError
    ELSE IF data[7] \notin DATAFRAME_TYPE THEN FrameError
    ELSE LoRaDataFrame(SubSeq(data, 1, 6), data[7], SubSeq(data, 9, Len(data)))

LoRaDataFrame_from_bytes(data) ==
    IF Len(data) < 7 THEN FrameError
    ELSE IF data[7] \notin DATAFRAME_TYPE THEN FrameError
    ELSE LoRaDataFrame(SubSeq(data, 1, 6), data[7], SubSeq(data, 8, Len(data)))

FrameBytes(n) == [i \in 1..n |-> (7 * i) % 256]
FrameAddresses ==
    {<<>>, <<1, 2, 3, 4, 5>>, <<0, 0, 0, 0, 0, 0>>, <<1, 2, 3, 4, 5, 6>>,
     <<255, 255, 255, 255, 255, 255>>, <<1, 2, 3, 4, 5, 6, 7>>}
FrameTypes == {0, 1, 2, 255}
FramePayloads ==
    {FrameBytes(n) : n \in {0, 1, 2, DataFrameMaxPayloadLength - 1,
                            DataFrameMaxPayloadLength, DataFrameMaxPayloadLength + 1}}
FrameProbes ==
    {[fn |-> "LoRaDataFrame", address |-> a, data_type |-> t, payload |-> pl] :
        a \in FrameAddresses, t \in FrameTypes, pl \in FramePayloads}
RawFrames ==
    {a \o <<t>> \o pl : a \in {x \in FrameAddresses : Len(x) = 6},
                        t \in FrameTypes, pl \in FramePayloads}
RawProbes ==
    {[fn |-> "from_bytes", data |-> SubSeq(d, 1, IF n < Len(d) THEN n ELSE Len(d))] :
        d \in RawFrames, n \in {0, 1, 6, 7, 8, 9, 254, 255, 256}}

\* a frame is built from the triple, written to bytes and read back
Construct ==
    /\ budget.probe.fn = "LoRaDataFrame"
    /\ last.op = "none"
    /\ LET p == budget.probe
           f == LoRaDataFrame(p.address, p.data_type, p.payload)
       IN  last' = [NoOp EXCEPT
                      !.op = "LoRaDataFrame",
                      !.out = <<f, IF f.error = ""
                                   THEN LoRaDataFrame_from_bytes(LoRaDataFrame_to_bytes(f))
                                   ELSE f>>]
    /\ UNCHANGED <<tcb, incoming_dataframes, retransmission_attempts,
                   last_retransmission_sequence_number, sockets, listening_sockets,
                   INSTANCES, SOCKET_ID_COUNTER, running, link, link_down,
                   app_sent, app_rcvd, budget>>
    /\ UNCHANGED <<datalink_vars, pending>>

\* received bytes are read as a frame
Decode ==
    /\ budget.probe.fn = "from_bytes"
    /\ last.op = "none"
    /\ last' = [NoOp EXCEPT !.op = "from_bytes",
                            !.out = <<LoRaDataFrame_from_bytes(budget.probe.data)>>]
    /\ UNCHANGED <<tcb, incoming_dataframes, retransmission_attempts,
                   last_retransmission_sequence_number, sockets, listening_sockets,
                   INSTANCES, SOCKET_ID_COUNTER, running, link, link_down,
                   app_sent, app_rcvd, budget>>
    /\ UNCHANGED <<datalink_vars, pending>>

InitFrame == \E p \in FrameProbes \cup RawProbes : InitWith([NoBudget EXCEPT !.probe = p])

NextFrame == Construct \/ Decode

SpecFrame == InitFrame /\ [][NextFrame]_vars

(***************************************************************************)
(* SpecBulk: the sensor's application writes its whole stream with one     *)
(* send(): as much as one segment takes, one byte more, as much as the     *)
(* retransmission queue takes in segments, and one byte more.  The link    *)
(* loses what it cannot carry and the timer runs out at most once.         *)
(***************************************************************************)
BulkWrites ==
    {TCB_MAX_PAYLOAD_SIZE, TCB_MAX_PAYLOAD_SIZE + 1,
     RTX_QUEUE_MAXLEN * TCB_MAX_PAYLOAD_SIZE, RTX_QUEUE_MAXLEN * TCB_MAX_PAYLOAD_SIZE + 1}
BulkData(n) == [i \in 1..n |-> i % 256]
BulkBudgets ==
    {[NoBudget EXCEPT !.bytes = [e \in Endpoints |-> IF e = "s" THEN n ELSE 0],
                      !.chunk = n, !.expiries = MaxExpiries, !.losses = Unlimited] :
        n \in BulkWrites}

\* the application calls send() once with all its bytes
SendBulk(e) ==
    /\ app_sent[e] = <<>>
    /\ budget.chunk <= budget.bytes[e]
    /\ \E w \in {send(World, e, BulkData(budget.chunk))} :
          Sent(e, BulkData(budget.chunk), w)
    /\ UNCHANGED <<running, link_down, app_rcvd, budget>>

InitBulk == \E b \in BulkBudgets : InitWith(b)

NextBulk ==
    \/ Connect
    \/ Listen
    \/ \E e \in Endpoints : SendBulk(e)
    \/ \E e \in Endpoints : Run(e)
    \/ \E f \in link : Deliver(f)
    \/ \E f \in link : Lose(f)

SpecBulk == InitBulk /\ [][NextBulk]_vars

(***************************************************************************)
(* SpecFin: set-up and tear-down over a link that loses nothing, and one   *)
(* FIN that carries data, as a peer that sends its last bytes together     *)
(* with its FIN would send it, arriving at any moment.                     *)
(***************************************************************************)
FinBudgets ==
    {[NoBudget EXCEPT !.close = [e \in Endpoints |-> MaxClose],
                      !.foreign = 1, !.kinds = {"FIN+DATA"}]}

InitFin == \E b \in FinBudgets : InitWith(b)

NextFin ==
    \/ Connect
    \/ Listen
    \/ \E e \in Endpoints : Close(e)
    \/ \E e \in Endpoints : Run(e)
    \/ \E f \in link : Deliver(f)
    \/ \E e \in Endpoints : Arrive(e)

SpecFin == InitFin /\ [][NextFin]_vars

(***************************************************************************)
(* LoRaDataLink with its SensorState records: one data-link, a gateway's   *)
(* or a sensor's, the frames its radio receives, the segments its          *)
(* endpoints hand to add_to_send_queue and the faults of its modem.        *)
(***************************************************************************)
\* The socket-id the data-link reads from a segment's bytes (the header is one
\* byte of socket-id and flags, two of seq, two of ack)
socket_id_of(data) ==
    IF Len(data) < 5 THEN 0
    ELSE dispatch_socket_id([b0 |-> data[1], seq |-> data[2] * 256 + data[3],
                             ack |-> data[4] * 256 + data[5],
                             payload |-> SubSeq(data, 6, Len(data))])

\* LoRaTCPSegment.to_bytes as bytes, of a segment without payload whose seq
\* tells it from the others
segment_bytes(socket_id, flags, seq) == <<socket_id * 16 + flags, 0, seq, 0, 0>>

\* SensorState.__init__
SensorState(sensor_address) ==
    [sensor_address |-> sensor_address, socket_ids |-> <<>>, last_communication |-> None]

\* the place of the last element of s that satisfies Test, 0 for None: the
\* loops of get_state_by_address and get_by_socket_id run to the end of the
\* list and keep the last match
last_match(s, Test(_)) ==
    LET hits == {i \in 1..Len(s) : Test(s[i])}
    IN  IF hits = {} THEN 0 ELSE CHOOSE i \in hits : \A j \in hits : j <= i

\* SensorState.get_state_by_address
get_state_by_address(instances, sensor_address) ==
    last_match(instances, LAMBDA st : st.sensor_address = sensor_address)

\* SensorState.get_by_socket_id
get_by_socket_id(instances, socket_id) ==
    last_match(instances,
               LAMBDA st : \E k \in 1..Len(st.socket_ids) : st.socket_ids[k] = socket_id)

\* a queue that takes the frame back at its tail
put_sync_left_tail(q, item) ==
    (IF Len(q) >= TX_QUEUE_MAXSIZE THEN SubSeq(q, 1, Len(q) - 1) ELSE q) \o <<item>>

\* Queue.put_sync_left: deque.appendleft, which on a full deque drops the
\* element at the other end
put_sync_left(q, item) ==
    <<item>> \o (IF Len(q) >= TX_QUEUE_MAXSIZE THEN SubSeq(q, 1, Len(q) - 1) ELSE q)

\* the one element of a set of one: The({F(x) : x \in {e}}) is F(e), with e
\* worked out once
The(S) == CHOOSE x \in S : TRUE

\* The data-link at work: dl its record, txq the transmit queue, timer and
\* transmitted the duty-cycle window, now the clock, raised the exception that
\* leaves the call, tried the frame handed to the driver and tx the frame it
\* has sent.
LinkWorld ==
    [dl |-> data_link, txq |-> transmitQueue, timer |-> duty_cycle_timer,
     transmitted |-> transmit_time, now |-> clock, raised |-> "none", tried |-> <<>>,
     tx |-> <<>>]

\* LoRaDataLink.add_to_send_queue, by the data-link's own records
link_add_to_send_queue(lw, data) ==
    IF lw.dl.mode = "gateway"
    THEN LET i == get_by_socket_id(lw.dl.SensorState_INSTANCES, socket_id_of(data))
         IN  IF i = 0 THEN [lw EXCEPT !.raised = "RuntimeError"]
             ELSE LET f == LoRaDataFrame(lw.dl.SensorState_INSTANCES[i].sensor_address,
                                         1, data)
                  IN  IF f.error # "" THEN [lw EXCEPT !.raised = f.error]
                      ELSE [lw EXCEPT !.txq = put_sync(@, f)]
    ELSE LET f == LoRaDataFrame(lw.dl.sensor_address, 1, data)
         IN  IF f.error # "" THEN [lw EXCEPT !.raised = f.error]
             ELSE [lw EXCEPT !.txq = put_sync(@, f)]

\* LoRaDataLink.run, the recovery after a BUSY timeout: the modem is
\* configured anew (which may fail: nothing is counted), then with ten
\* recoveries counted machine.reset() is called, which restarts a sensor and
\* is no attribute of the gateway's machine package (the recovery fails);
\* else the recovery is counted.
LinkReset == 10
recover(lw, recovers) ==
    IF ~recovers THEN lw
    ELSE IF lw.dl.busy_timeout_retries = LinkReset
         THEN IF lw.dl.mode = "sensor" THEN [lw EXCEPT !.raised = "reset"] ELSE lw
         ELSE [lw EXCEPT !.dl.busy_timeout_retries = @ + 1]

\* LoRaDataLink.run, the frame received: a segment goes to the last connected
\* endpoint of its socket-id, else to the first listening endpoint, else the
\* frame is dropped; the gateway notes the socket-id under the sender's
\* address and stamps the sender as heard.
stamp(lw, address, ids) ==
    LET at == get_state_by_address(lw.dl.SensorState_INSTANCES, address)
        instances == IF at = 0 THEN Append(lw.dl.SensorState_INSTANCES, SensorState(address))
                     ELSE lw.dl.SensorState_INSTANCES
        i == IF at = 0 THEN Len(instances) ELSE at
        known == {instances[i].socket_ids[k] : k \in 1..Len(instances[i].socket_ids)}
        new == SelectSeq(ids, LAMBDA id : id \notin known)
    IN  [lw EXCEPT !.dl.SensorState_INSTANCES =
            [instances EXCEPT ![i] = [@ EXCEPT !.socket_ids = @ \o new,
                                               !.last_communication = lw.now]]]

\* a dispatcher that prefers a listening endpoint
link_dispatch_listening_first(lw, data) ==
    IF Len(data) < 7 THEN lw
    ELSE LET f == LoRaDataFrame_from_bytes(data)
         IN  IF f.error # "" THEN lw
             ELSE IF lw.dl.mode # "gateway" /\ lw.dl.sensor_address # f.address THEN lw
             ELSE IF f.data_type = 1
             THEN LET socket_id == socket_id_of(f.payload)
                      s == last_match(lw.dl.sockets, LAMBDA e : e.socket_id = socket_id)
                      heard == IF lw.dl.mode = "gateway"
                               THEN stamp(lw, f.address, <<socket_id>>) ELSE lw
                  IN  IF Len(lw.dl.listening_sockets) > 0
                      THEN [heard EXCEPT !.dl.listening_sockets[1].incoming = Append(@, f)]
                      ELSE IF s # 0
                      THEN [heard EXCEPT !.dl.sockets[s].incoming = Append(@, f)]
                      ELSE lw
             ELSE IF lw.dl.mode = "gateway" THEN stamp(lw, f.address, <<>>)
             ELSE lw

link_dispatch(lw, data) ==
    IF Len(data) < 7 THEN lw
    ELSE LET f == LoRaDataFrame_from_bytes(data)
         IN  IF f.error # "" THEN lw
             ELSE IF lw.dl.mode # "gateway" /\ lw.dl.sensor_address # f.address THEN lw
             ELSE IF f.data_type = 1
             THEN LET socket_id == socket_id_of(f.payload)
                      s == last_match(lw.dl.sockets, LAMBDA e : e.socket_id = socket_id)
                      heard == IF lw.dl.mode = "gateway"
                               THEN stamp(lw, f.address, <<socket_id>>) ELSE lw
                  IN  IF s # 0
                      THEN [heard EXCEPT !.dl.sockets[s].incoming = Append(@, f)]
                      ELSE IF Len(lw.dl.listening_sockets) > 0
                      THEN [heard EXCEPT !.dl.listening_sockets[1].incoming = Append(@, f)]
                      ELSE lw
             ELSE IF lw.dl.mode = "gateway" THEN stamp(lw, f.address, <<>>)
             ELSE lw

\* LoRaDataLink._find_dataframe_for_active_sensor: a sensor takes the first
\* frame; the gateway empties the queue, keeps the first frame whose sensor is
\* active and puts all others back in their order.  The result: the frame
\* (or none) and the queue left.
RECURSIVE put_back(_, _)
put_back(q, frames) ==
    IF frames = <<>> THEN q ELSE put_back(put_sync(q, Head(frames)), Tail(frames))

frame_is_active(lw, f) ==
    LET i == get_state_by_address(lw.dl.SensorState_INSTANCES, f.address)
    IN  i # 0 /\ is_active(lw.now, lw.dl.SensorState_INSTANCES[i].last_communication)

\* a data-link whose gateway takes the last frame of an active sensor
find_dataframe_last_active(lw) ==
    IF lw.dl.mode = "sensor"
    THEN [frame |-> <<Head(lw.txq)>>, txq |-> Tail(lw.txq)]
    ELSE LET active == {i \in 1..Len(lw.txq) : frame_is_active(lw, lw.txq[i])}
             first == IF active = {} THEN 0
                      ELSE CHOOSE i \in active : \A j \in active : i >= j
             others == [i \in 1..(Len(lw.txq) - (IF first = 0 THEN 0 ELSE 1)) |->
                           IF first = 0 \/ i < first THEN lw.txq[i] ELSE lw.txq[i + 1]]
         IN  [frame |-> IF first = 0 THEN <<>> ELSE <<lw.txq[first]>>,
              txq |-> put_back(<<>>, others)]

find_dataframe_for_active_sensor(lw) ==
    IF lw.dl.mode = "sensor"
    THEN [frame |-> <<Head(lw.txq)>>, txq |-> Tail(lw.txq)]
    ELSE LET active == {i \in 1..Len(lw.txq) : frame_is_active(lw, lw.txq[i])}
             first == IF active = {} THEN 0
                      ELSE CHOOSE i \in active : \A j \in active : i <= j
             others == [i \in 1..(Len(lw.txq) - (IF first = 0 THEN 0 ELSE 1)) |->
                           IF first = 0 \/ i < first THEN lw.txq[i] ELSE lw.txq[i + 1]]
         IN  [frame |-> IF first = 0 THEN <<>> ELSE <<lw.txq[first]>>,
              txq |-> put_back(<<>>, others)]

\* LoRaDataLink.run, the transmission: nothing queued or no frame for an
\* active sensor, nothing is sent; else the driver sends the frame (its
\* airtime is counted) or fails, and the frame goes back to the front of the
\* queue, a BUSY timeout being recovered from.
link_transmit(lw, snd, airtime) ==
    IF Len(lw.txq) = 0 THEN lw
    ELSE LET found == find_dataframe_for_active_sensor(lw)
             taken == [lw EXCEPT !.txq = found.txq, !.tried = found.frame]
         IN  IF found.frame = <<>> THEN taken
             ELSE IF snd = "ok"
             THEN [taken EXCEPT !.tx = found.frame,
                                !.dl.radio = Append(@, found.frame[1]),
                                !.transmitted = @ + airtime,
                                !.now = ticks_add(@, airtime)]
             ELSE LET back == [taken EXCEPT !.txq = put_sync_left(@, found.frame[1])]
                  IN  IF snd = "error" THEN back
                      ELSE recover(back, snd = "busy")

\* LoRaDataLink.run, the duty cycle: with the budget of the running window
\* spent the gateway returns and a sensor sleeps to the window's end; a window
\* that is over is restarted and the recoveries counted are forgotten.
link_duty_cycle(lw, snd, airtime) ==
    IF duty_cycle_exceeded(lw.now, lw.timer, lw.transmitted)
    THEN IF lw.dl.mode = "gateway" THEN lw
         ELSE The({link_transmit(slept, snd, airtime) :
                      slept \in {[lw EXCEPT !.now = ticks_add(@, DUTY_CYCLE_WINDOW_MS
                                                     - ticks_diff(lw.now, lw.timer))]}})
    ELSE IF duty_cycle_elapsed(lw.now, lw.timer)
    THEN The({link_transmit(restarted, snd, airtime) :
                 restarted \in {[lw EXCEPT !.timer = lw.now, !.transmitted = 0,
                                           !.dl.busy_timeout_retries = 0]}})
    ELSE link_transmit(lw, snd, airtime)

\* LoRaDataLink.run.  rcv is what the driver's recv gives: nothing ("none"),
\* a fault ("error", "busy" recovered from, "busy_unrecovered") or a "packet"
\* with its bytes; snd is what the driver's send would do, airtime the time
\* it takes.
link_run(lw, rcv, snd, airtime) ==
    IF lw.dl.transmission_block THEN lw
    ELSE The({IF received.raised = "reset" THEN received
              ELSE link_duty_cycle(received, snd, airtime) :
                 received \in
                    {IF rcv.kind \in {"none", "error"} THEN lw
                     ELSE IF rcv.kind \in {"busy", "busy_unrecovered"}
                     THEN recover(lw, rcv.kind = "busy")
                     ELSE link_dispatch(lw, rcv.data)}})

\* LoRaDataLink.register_listening_socket
link_register_listening_socket(lw, e) ==
    IF lw.dl.mode = "sensor" THEN [lw EXCEPT !.raised = "Exception"]
    ELSE [lw EXCEPT !.dl.listening_sockets = Append(@, e)]

\* LoRaDataLink.register_syn_rcvd_socket: e as it is listed, accepted as it
\* is after taking the SYN
link_register_syn_rcvd_socket(lw, e, accepted) ==
    LET known == get_by_socket_id(lw.dl.SensorState_INSTANCES, accepted.socket_id) # 0
    IN  [lw EXCEPT
           !.dl.listening_sockets = SelectSeq(@, LAMBDA x : x.name # e.name),
           !.dl.SensorState_INSTANCES =
               IF known THEN @
               ELSE Append(@, [SensorState(accepted.socket_id) EXCEPT
                                  !.last_communication = lw.now]),
           !.dl.sockets = Append(@, accepted)]

\* LoRaDataLink.remove_socket
link_remove_socket(lw, e) ==
    [lw EXCEPT !.dl.sockets = SelectSeq(@, LAMBDA x : x.name # e.name)]

\* the data-link and the gateway's clock after a call
LinkBecomes(lw) ==
    /\ data_link' =
          IF lw.raised = "reset"
          THEN [init_once(lw.dl.mode) EXCEPT !.radio = lw.dl.radio,
                                             !.resets = lw.dl.resets + 1]
          ELSE lw.dl
    /\ transmitQueue' = IF lw.raised = "reset" THEN <<>> ELSE lw.txq
    /\ duty_cycle_timer' = IF lw.raised = "reset" THEN lw.now ELSE lw.timer
    /\ transmit_time' = IF lw.raised = "reset" THEN 0 ELSE lw.transmitted
    /\ clock' = lw.now
    /\ UNCHANGED <<tcb, incoming_dataframes, retransmission_attempts,
                   last_retransmission_sequence_number, sockets, listening_sockets,
                   INSTANCES, SOCKET_ID_COUNTER, running, link, link_down,
                   app_sent, app_rcvd, last_communication, pending>>

\* The sensors in reach of the gateway, the socket-ids their endpoints draw
\* (every sensor numbers its endpoints from 0) and what the radio receives.
SensorA == <<2, 0, 0, 0, 0, 1>>
SensorB == <<2, 0, 0, 0, 0, 2>>
LinkAddresses == IF data_link.mode = "gateway" THEN {SensorA, SensorB}
                 ELSE {OwnAddress, SensorA}
LinkIds == {0, 1}
SYN_FLAG == 1
ACK_FLAG == 2
RST_FLAG == 8
MaxLinkSends == 3
LinkPackets ==
    {LoRaDataFrame_to_bytes(LoRaDataFrame(a, 1, segment_bytes(id, SYN_FLAG, 0))) :
        a \in LinkAddresses, id \in LinkIds}
      \cup {LoRaDataFrame_to_bytes(LoRaDataFrame(a, 1, segment_bytes(0, ACK_FLAG, 0))) :
               a \in LinkAddresses}
      \cup {LoRaDataFrame_to_bytes(LoRaDataFrame(a, 0, <<>>)) : a \in LinkAddresses}
      \cup {<<2, 0, 0>>}
LinkReceives ==
    {[kind |-> k, data |-> <<>>] : k \in {"none", "error", "busy", "busy_unrecovered"}}
      \cup {[kind |-> "packet", data |-> d] : d \in LinkPackets}
LinkSends == {"ok", "error", "busy", "busy_unrecovered"}
Faulty(kind) == kind \in {"error", "busy", "busy_unrecovered"}

\* the worker calls data_link.run()
LinkRun ==
    /\ budget.probe.fn = "LoRaDataLink"
    /\ \E rcv \in LinkReceives, snd \in LinkSends, airtime \in budget.airtimes :
          LET faults == (IF Faulty(rcv.kind) THEN 1 ELSE 0)
                           + (IF Faulty(snd) THEN 1 ELSE 0)
          IN  /\ rcv.kind = "packet" => budget.probe.arrivals > 0
              /\ faults <= budget.probe.faults
              /\ \E lw \in {link_run(LinkWorld, rcv, snd, airtime)} :
                    /\ lw.tried = <<>> => snd = "ok"
                    /\ LinkBecomes(lw)
                    /\ last' = [NoOp EXCEPT !.op = "link_run", !.raised = lw.raised,
                                            !.rx = <<rcv>>, !.tx = lw.tx,
                                            !.out = <<snd>>]
              /\ budget' = [budget EXCEPT
                              !.probe.arrivals = @ - (IF rcv.kind = "packet" THEN 1 ELSE 0),
                              !.probe.faults = @ - faults]

\* an endpoint of the link: its place in the order of construction, the
\* socket-id of its TCB, the frames waiting for its run() and (history) the
\* address of the sensor whose SYN it has taken
LinkEndpoint(name, socket_id) ==
    [name |-> name, socket_id |-> socket_id, incoming |-> <<>>, peer |-> <<>>]

\* LoRaTCP.listen on the gateway: one more endpoint waits for a SYN
LinkListen ==
    /\ budget.probe.fn = "LoRaDataLink"
    /\ data_link.mode = "gateway"
    /\ budget.probe.listeners > 0
    /\ LET lw == link_register_listening_socket(
                    LinkWorld, LinkEndpoint(budget.probe.made + 1, None))
       IN  /\ LinkBecomes(lw)
           /\ last' = [NoOp EXCEPT !.op = "link_listen", !.raised = lw.raised]
    /\ budget' = [budget EXCEPT !.probe.listeners = @ - 1, !.probe.made = @ + 1]

\* LoRaTCP.connect on a sensor: the endpoint draws its socket-id, its SYN is
\* queued and it is listed as connected
LinkConnect ==
    /\ budget.probe.fn = "LoRaDataLink"
    /\ data_link.mode = "sensor"
    /\ budget.probe.listeners > 0
    /\ LET e == LinkEndpoint(budget.probe.made + 1, budget.probe.made)
           queued == link_add_to_send_queue(
                        LinkWorld, segment_bytes(e.socket_id, SYN_FLAG, budget.probe.made))
           lw == IF queued.raised # "none" THEN queued
                 ELSE link_register_syn_rcvd_socket(queued, e, e)
       IN  /\ LinkBecomes(lw)
           /\ last' = [NoOp EXCEPT !.op = "link_connect", !.raised = lw.raised]
    /\ budget' = [budget EXCEPT !.probe.listeners = @ - 1, !.probe.made = @ + 1]

\* LoRaTCP.run of a listening endpoint, the segment arrives in LISTEN: an ACK
\* is answered with RST; a SYN is answered with SYN|ACK, the endpoint takes
\* the segment's socket-id and is listed as connected.
LinkAccept ==
    /\ budget.probe.fn = "LoRaDataLink"
    /\ \E i \in 1..Len(data_link.listening_sockets) :
          LET e == data_link.listening_sockets[i]
              f == Head(e.incoming)
              socket_id == socket_id_of(f.payload)
              ack_flag == (f.payload[1] \div ACK_FLAG) % 2 = 1
              taken == [LinkWorld EXCEPT !.dl.listening_sockets[i].incoming = Tail(@)]
              reply == link_add_to_send_queue(
                          taken, segment_bytes(socket_id,
                                               IF ack_flag THEN RST_FLAG + ACK_FLAG
                                               ELSE SYN_FLAG + ACK_FLAG,
                                               budget.probe.sent))
              accepted == [e EXCEPT !.socket_id = socket_id, !.incoming = Tail(@),
                                    !.peer = f.address]
              lw == IF ack_flag \/ reply.raised # "none" THEN reply
                    ELSE link_register_syn_rcvd_socket(reply, e, accepted)
          IN  /\ e.incoming # <<>>
              /\ budget.probe.sent < MaxLinkSends
              /\ LinkBecomes(lw)
              /\ last' = [NoOp EXCEPT !.op = "link_accept", !.raised = lw.raised,
                                      !.out = <<accepted>>]
    /\ budget' = [budget EXCEPT !.probe.sent = @ + 1]

\* a connected endpoint sends a segment: LoRaTCP.send_segment hands its bytes
\* to add_to_send_queue
LinkSend ==
    /\ budget.probe.fn = "LoRaDataLink"
    /\ budget.probe.sent < MaxLinkSends
    /\ \E i \in 1..Len(data_link.sockets) :
          LET e == data_link.sockets[i]
              lw == link_add_to_send_queue(
                       LinkWorld, segment_bytes(e.socket_id, ACK_FLAG, budget.probe.sent))
          IN  /\ LinkBecomes(lw)
              /\ last' = [NoOp EXCEPT !.op = "link_send", !.raised = lw.raised,
                                      !.out = <<e>>]
    /\ budget' = [budget EXCEPT !.probe.sent = @ + 1]

\* TCB.delete: the endpoint is taken from the list of connected endpoints
LinkRemove ==
    /\ budget.probe.fn = "LoRaDataLink"
    /\ budget.probe.removes > 0
    /\ \E i \in 1..Len(data_link.sockets) :
          /\ LinkBecomes(link_remove_socket(LinkWorld, data_link.sockets[i]))
          /\ last' = [NoOp EXCEPT !.op = "link_remove", !.out = <<data_link.sockets[i]>>]
    /\ budget' = [budget EXCEPT !.probe.removes = @ - 1]

\* LoRaDataLink.woke_up on a sensor back from deep sleep lets the radio work
\* again: the recoveries counted are forgotten and a WOKE_UP frame is sent
LinkWokeUp ==
    /\ budget.probe.fn = "LoRaDataLink"
    /\ data_link.mode = "sensor"
    /\ budget.probe.wakes > 0
    /\ LinkBecomes([LinkWorld EXCEPT
                      !.dl.busy_timeout_retries = 0,
                      !.dl.radio = Append(@, LoRaDataFrame(data_link.sensor_address,
                                                           0, <<>>)),
                      !.dl.transmission_block = FALSE])
    /\ last' = [NoOp EXCEPT !.op = "link_woke_up"]
    /\ budget' = [budget EXCEPT !.probe.wakes = @ - 1]

\* What the environment of the data-link may do in a run: the gateway with
\* two sensors in reach and its listening endpoints, the gateway and a sensor
\* with a faulty modem.
LinkProbe(mode, arrivals, faults, listeners, removes, wakes) ==
    [fn |-> "LoRaDataLink", mode |-> mode, arrivals |-> arrivals, faults |-> faults,
     listeners |-> listeners, removes |-> removes, wakes |-> wakes,
     made |-> 0, sent |-> 0]
MaxArrivals == 2
MaxFaults == 12
LinkAirtime == 100
LinkBudgets ==
    {[NoBudget EXCEPT !.probe = p, !.ticks = 1, !.airtimes = {LinkAirtime}] :
        p \in {LinkProbe("gateway", MaxArrivals, 0, 2, 1, 0),
               LinkProbe("sensor", 1, 0, 2, 0, 1)}}
BusyBudgets ==
    {[NoBudget EXCEPT !.probe = p, !.ticks = 2, !.airtimes = {LinkAirtime}] :
        p \in {LinkProbe("gateway", 1, MaxFaults, 1, 0, 0),
               LinkProbe("sensor", 0, MaxFaults, 1, 0, 1)}}

InitLink == \E b \in LinkBudgets : InitWith(b)

NextLink ==
    \/ LinkListen
    \/ LinkConnect
    \/ LinkRun
    \/ LinkAccept
    \/ LinkSend
    \/ LinkRemove
    \/ LinkWokeUp
    \/ Tick

SpecLink == InitLink /\ [][NextLink]_vars

\* the data-link with a modem that times out
InitBusy == \E b \in BusyBudgets : InitWith(b)

NextBusy ==
    \/ LinkListen
    \/ LinkConnect
    \/ LinkRun
    \/ LinkAccept
    \/ LinkWokeUp
    \/ Tick

SpecBusy == InitBusy /\ [][NextBusy]_vars

(***************************************************************************)
(* SpecTwice: the applications may call close() once more than in          *)
(* SpecClose, at any moment of the set-up and the tear-down of a           *)
(* connection over a link that loses nothing.                              *)
(***************************************************************************)
CloseTwice == MaxClose + 1

TwiceBudgets == {[NoBudget EXCEPT !.close = [e \in Endpoints |-> CloseTwice]]}

InitTwice == \E b \in TwiceBudgets : InitWith(b)

NextTwice ==
    \/ Connect
    \/ Listen
    \/ \E e \in Endpoints : Close(e)
    \/ \E e \in Endpoints : Run(e)
    \/ \E f \in link : Deliver(f)

SpecTwice == InitTwice /\ [][NextTwice]_vars

(***************************************************************************)
(* SpecRace: the application thread's close() and the worker's run() of    *)
(* one endpoint run at the same time.  Neither is one step here: each      *)
(* builds its segment from tcb.snd_nxt first and hands it to send_segment  *)
(* later, and the other thread may run in between (close() takes no lock;  *)
(* send() waits for send_buffer_lock, which run() holds from the cut of    *)
(* the payload to the return of send_segment).                             *)
(***************************************************************************)
\* the state becomes world w and the segments built and not yet sent are p
RaceBecomes(w, p) ==
    /\ tcb' = w.tcb
    /\ incoming_dataframes' = w.incoming
    /\ retransmission_attempts' = w.attempts
    /\ last_retransmission_sequence_number' = w.last_seq
    /\ sockets' = w.sockets
    /\ listening_sockets' = w.listening
    /\ INSTANCES' = w.instances
    /\ SOCKET_ID_COUNTER' = w.counter
    /\ link' = w.link
    /\ transmitQueue' = w.txq
    /\ pending' = p
    /\ UNCHANGED <<duty_cycle_timer, transmit_time, last_communication, clock,
                   data_link>>

\* close() in SYN_RCVD, ESTAB or CLOSE_WAIT, up to the FIN segment built
CloseBuilds(e) ==
    /\ budget.close[e] > 0
    /\ pending["application"] = <<>>
    /\ tcb[e].state \in {"SYN_RCVD", "ESTAB", "CLOSE_WAIT"}
    /\ RaceBecomes(World,
          [pending EXCEPT !["application"] =
              <<[ep |-> e, state |-> tcb[e].state,
                 seg |-> FinSegment(tcb[e].socket_id, tcb[e].snd_nxt, tcb[e].rcv_nxt)]>>])
    /\ last' = [NoOp EXCEPT !.op = "close_builds", !.ep = e]
    /\ budget' = [budget EXCEPT !.close[e] = @ - 1]
    /\ UNCHANGED <<running, link_down, app_sent, app_rcvd>>

\* close() from send_segment on: the FIN is sent, from ESTAB the state
\* becomes FIN_WAIT_1
CloseSends(e) ==
    /\ pending["application"] # <<>>
    /\ pending["application"][1].ep = e
    /\ LET call == pending["application"][1]
           sent == send_segment(World, e, call.seg, FALSE)
           w == IF call.state = "ESTAB" THEN SetState(sent, e, "FIN_WAIT_1") ELSE sent
       IN  /\ RaceBecomes(w, [pending EXCEPT !["application"] = <<>>])
           /\ last' = Op("close", e, w)
    /\ UNCHANGED <<running, link_down, app_sent, app_rcvd, budget>>

\* run(), up to the first segment built from the send buffer
RunBuilds(e) ==
    /\ running[NodeOf(e)]
    /\ list_has(INSTANCES[NodeOf(e)], e)
    /\ pending["worker"] = <<>>
    /\ \E iss \in IssChoices(e) :
          LET w1 == process_incoming([World EXCEPT !.incoming[e] = <<>>], e,
                                     incoming_dataframes[e], iss)
              t == w1.tcb[e]
              payload_len == Min(t.snd_wnd, Len(t.send_buffer))
              new_seg == AckSegment(t.socket_id, t.snd_nxt, t.rcv_nxt,
                                    Take(t.send_buffer, payload_len))
              w2 == SetTCB(w1, e, [t EXCEPT !.send_buffer = Drop(@, payload_len)])
          IN  /\ w1.raised = "none"
              /\ t.state \in {"ESTAB", "CLOSE_WAIT", "FIN_WAIT_1"}
              /\ t.send_buffer # <<>>
              /\ RaceBecomes(w2, [pending EXCEPT !["worker"] =
                                     <<[ep |-> e, seg |-> new_seg]>>])
              /\ last' = [Op("run_builds", e, w2) EXCEPT !.sent = w2.sent]
    /\ UNCHANGED <<running, link_down, app_sent, app_rcvd, budget>>

\* run() from send_segment on: the segment built is sent, the rest of the
\* send buffer is worked off and the timers are looked at
RunSends(e) ==
    /\ pending["worker"] # <<>>
    /\ pending["worker"][1].ep = e
    /\ \E iss \in IssChoices(e) :
          LET call == pending["worker"][1]
              w == Then(Then(Then(send_segment(World, e, call.seg, FALSE),
                                  LAMBDA w1 : process_send_buffer(w1, e)),
                             LAMBDA w2 : check_retransmission_timer(w2, e, FALSE, iss)),
                        LAMBDA w3 : run_time_wait(w3, e, FALSE, iss))
          IN  /\ RaceBecomes(w, [pending EXCEPT !["worker"] = <<>>])
              /\ last' = Op("run", e, w)
              /\ running' = [running EXCEPT ![NodeOf(e)] = (w.raised = "none")]
    /\ UNCHANGED <<link_down, app_sent, app_rcvd, budget>>

RaceBudgets ==
    {[NoBudget EXCEPT !.bytes = [e \in Endpoints |-> IF e = "s" THEN 1 ELSE 0],
                      !.close = [e \in Endpoints |-> MaxClose]]}

InitRace == \E b \in RaceBudgets : InitWith(b)

NextRace ==
    \/ Connect
    \/ Listen
    \/ \E e \in Endpoints : pending["worker"] = <<>> /\ Send(e)
    \/ \E e \in Endpoints : pending["worker"] = <<>> /\ Run(e)
    \/ \E f \in link : Deliver(f)
    \/ \E e \in Endpoints : CloseBuilds(e)
    \/ \E e \in Endpoints : CloseSends(e)
    \/ \E e \in Endpoints : RunBuilds(e)
    \/ \E e \in Endpoints : RunSends(e)

SpecRace == InitRace /\ [][NextRace]_vars

(***************************************************************************)
(* SpecBlock: an application calls read() on a blocking socket that has no *)
(* timeout.  The call is not one step: it passes the checks at its entry   *)
(* and then polls tcb.reassembled_data every 10 ms, while the worker's     *)
(* run() goes on and a reset from the peer may delete the TCB.             *)
(***************************************************************************)
\* the read() of e's application is inside its polling loop
Waiting(e) ==
    /\ pending["application"] # <<>>
    /\ pending["application"][1].ep = e

\* LoRaTCP.read, from its entry to the first turn of the loop: the socket is
\* not CLOSED and nothing is there to read
ReadWaits(e) ==
    /\ pending["application"] = <<>>
    /\ tcb[e].state # "CLOSED"
    /\ tcb[e].reassembled_data = <<>>
    /\ \E bufsize \in budget.bufsizes :
          pending' = [pending EXCEPT !["application"] =
                         <<[ep |-> e, bufsize |-> bufsize]>>]
    /\ last' = [NoOp EXCEPT !.op = "read_waits", !.ep = e, !.mode = "blocking"]
    /\ UNCHANGED <<tcb, incoming_dataframes, retransmission_attempts,
                   last_retransmission_sequence_number, sockets, listening_sockets,
                   INSTANCES, SOCKET_ID_COUNTER, running, link, link_down,
                   app_sent, app_rcvd, budget, datalink_vars>>

\* LoRaTCP.read, the turn of the loop that finds reassembled_data not empty,
\* and the return of at most bufsize bytes
ReadWakes(e) ==
    /\ Waiting(e)
    /\ tcb[e].reassembled_data # <<>>
    /\ LET bufsize == pending["application"][1].bufsize
           data == read_data(tcb[e], bufsize, "blocking")
           w == SetTCB(World, e, [tcb[e] EXCEPT !.reassembled_data =
                                      Drop(@, Len(data))])
       IN  /\ RaceBecomes(w, [pending EXCEPT !["application"] = <<>>])
           /\ last' = [Op("read", e, w) EXCEPT !.data = data, !.bufsize = bufsize,
                                               !.mode = "blocking"]
           /\ app_rcvd' = [app_rcvd EXCEPT ![e] = @ \o data]
    /\ UNCHANGED <<running, link_down, app_sent, budget>>

BlockBudgets ==
    {[NoBudget EXCEPT !.bytes = [e \in Endpoints |-> IF e = "g" THEN 1 ELSE 0],
                      !.losses = Unlimited,
                      !.foreign = MaxForeign, !.kinds = {"RST"}]}

InitBlock == \E b \in BlockBudgets : InitWith(b)

NextBlock ==
    \/ Connect
    \/ Listen
    \/ \E e \in Endpoints : ~Waiting(e) /\ Send(e)
    \/ \E e \in Endpoints : ReadWaits(e)
    \/ \E e \in Endpoints : ReadWakes(e)
    \/ \E e \in Endpoints : Run(e)
    \/ \E f \in link : Deliver(f)
    \/ \E e \in Endpoints : Arrive(e)

\* the worker threads and the radio go on, and so does the loop of read()
BlockFairness ==
    /\ \A e \in Endpoints : WF_vars(Run(e))
    /\ \A e \in Endpoints : WF_vars(ReadWakes(e))
    /\ WF_vars(\E f \in link : Deliver(f))

SpecBlock == InitBlock /\ [][NextBlock]_vars /\ BlockFairness

(***************************************************************************)
(* SpecRetry: the data-link with a driver whose send fails now and then,   *)
(* at the gateway with two sensors in reach (one fault), at the gateway    *)
(* with one sensor and at a sensor with one endpoint (MaxRetryFaults).     *)
(***************************************************************************)
MaxRetryFaults == 2
RetryBudgets ==
    {[NoBudget EXCEPT !.probe = p, !.ticks = 1, !.airtimes = {LinkAirtime}] :
        p \in {LinkProbe("gateway", MaxArrivals, 1, 2, 0, 0),
               LinkProbe("gateway", 1, MaxRetryFaults, 2, 0, 0),
               LinkProbe("sensor", 0, MaxRetryFaults, 1, 0, 0)}}

InitRetry == \E b \in RetryBudgets : InitWith(b)

NextRetry ==
    \/ LinkListen
    \/ LinkConnect
    \/ LinkRun
    \/ LinkAccept
    \/ LinkSend
    \/ Tick

SpecRetry == InitRetry /\ [][NextRetry]_vars

(***************************************************************************)
(* SpecQueue: one Queue(maxsize) of its own, 1 <= maxsize <= MaxQueueSize, *)
(* and MaxQueueOps calls of put_sync, put_sync_left and pop_sync in any    *)
(* order.  The items put are numbered in the order of the calls.  The      *)
(* deque of the queue is held in transmitQueue.                            *)
(***************************************************************************)
\* a queue that drops the newest of its items when full
Queue_put_sync_drops_newest(queue, maxsize, item) ==
    Append(IF Len(queue) >= maxsize THEN SubSeq(queue, 1, Len(queue) - 1) ELSE queue,
           item)

\* Queue.put_sync on a Queue(maxsize): a full queue drops its oldest item
Queue_put_sync(queue, maxsize, item) ==
    Append(IF Len(queue) >= maxsize THEN Tail(queue) ELSE queue, item)

\* Queue.put_sync_left: deque.appendleft on a deque of maxlen maxsize, which
\* drops the item at the right end when full
Queue_put_sync_left(queue, maxsize, item) ==
    <<item>> \o (IF Len(queue) >= maxsize THEN SubSeq(queue, 1, Len(queue) - 1)
                 ELSE queue)

\* Queue.pop_sync: the item returned (None from an empty queue) and the
\* deque left
Queue_pop_sync(queue) ==
    IF Len(queue) = 0 THEN [item |-> None, queue |-> queue]
    ELSE [item |-> Head(queue), queue |-> Tail(queue)]

MaxQueueSize == 3
MaxQueueOps == 6

\* a call has turned the deque into queue and returned item; data is the
\* deque before the call
QueueCalled(op, queue, item) ==
    /\ budget.probe.ops > 0
    /\ transmitQueue' = queue
    /\ budget' = [budget EXCEPT !.probe.ops = @ - 1]
    /\ last' = [NoOp EXCEPT !.op = op, !.data = transmitQueue, !.out = <<item>>]
    /\ UNCHANGED <<tcb, incoming_dataframes, retransmission_attempts,
                   last_retransmission_sequence_number, sockets, listening_sockets,
                   INSTANCES, SOCKET_ID_COUNTER, running, link, link_down,
                   app_sent, app_rcvd, duty_cycle_timer, transmit_time,
                   last_communication, clock, data_link, pending>>

\* the item of the next put: the number of the call
NextItem == MaxQueueOps - budget.probe.ops + 1

QueuePut ==
    /\ budget.probe.fn = "Queue"
    /\ QueueCalled("put_sync",
                   Queue_put_sync(transmitQueue, budget.probe.maxsize, NextItem),
                   NextItem)

QueuePutLeft ==
    /\ budget.probe.fn = "Queue"
    /\ QueueCalled("put_sync_left",
                   Queue_put_sync_left(transmitQueue, budget.probe.maxsize, NextItem),
                   NextItem)

QueuePop ==
    /\ budget.probe.fn = "Queue"
    /\ \E popped \in {Queue_pop_sync(transmitQueue)} :
          QueueCalled("pop_sync", popped.queue, popped.item)

QueueProbes == {[fn |-> "Queue", maxsize |-> n, ops |-> MaxQueueOps] : n \in 1..MaxQueueSize}

InitQueue == \E p \in QueueProbes : InitWith([NoBudget EXCEPT !.probe = p])

NextQueue == QueuePut \/ QueuePutLeft \/ QueuePop

SpecQueue == InitQueue /\ [][NextQueue]_vars

(***************************************************************************)
(* Claims.                                                                 *)
(***************************************************************************)
IsPrefix(a, b) == Len(a) <= Len(b) /\ SubSeq(b, 1, Len(a)) = a

\* what the application of e has been handed by read(), followed by what is
\* waiting for it in reassembled_data
Delivered(e) == app_rcvd[e] \o tcb[e].reassembled_data

\* C1: whatever the link loses, duplicates or reorders, the bytes read() has
\* returned at an endpoint, followed by its reassembled_data, are a prefix of
\* the bytes the peer's application has passed to send().
C1_DeliveredIsPrefix ==
    \A e \in Endpoints : IsPrefix(Delivered(e), app_sent[Peer(e)])

\* C1 witness: after a duplicated frame and a retransmission the gateway has
\* handed over the first byte and holds the second.
C1_Witness ==
    /\ budget.dup = 0 /\ budget.expiries = 0
    /\ app_rcvd["g"] = <<11>>
    /\ tcb["g"].reassembled_data = <<12>>
    /\ tcb["g"].state = "ESTAB"

\* the retransmission timer has run out in the run() of e that has just
\* ended, and has found a segment on the retransmission queue
RtxExpired(e) ==
    /\ last.op = "run" /\ last.ep = e /\ last.rtx_expired /\ last.raised = "none"
    /\ tcb[e].retransmission_queue # <<>>

\* e's application has just written its n-th byte, on an ESTABLISHED connection
Wrote(e, n) ==
    /\ last.op = "send" /\ last.ep = e /\ last.state = "ESTAB" /\ last.raised = "none"
    /\ Len(app_sent[e]) = n

\* the first n bytes from e's peer are there for recv()
Available(e, n) ==
    Len(Delivered(e)) >= n /\ SubSeq(Delivered(e), 1, n) = SubSeq(AppData(Peer(e)), 1, n)

Connected == last.op = "connect" /\ last.raised = "none"

\* the run() of the gateway that has just ended found it in LISTEN and has
\* taken a SYN
Accepted == last.op = "run" /\ last.ep = "g" /\ last.state = "LISTEN"
            /\ tcb["g"].state # "LISTEN"

BothEstablished == \A e \in Endpoints : tcb[e].state = "ESTAB"

ClosedFrom(e, states) == last.op = "close" /\ last.ep = e /\ last.state \in states

\* close() has just sent one FIN|ACK with seq = snd_nxt and ack = rcv_nxt
SentFin ==
    /\ Len(last.sent) = 1
    /\ last.sent[1].fin_flag /\ last.sent[1].ack_flag
    /\ last.sent[1].seq = last.snd_nxt
    /\ last.sent[1].ack = last.rcv_nxt

\* C4: the active side of a graceful close.  After close() in ESTABLISHED the
\* endpoint has sent FIN|ACK and is in FIN_WAIT_1, and once it has come to
\* TIME_WAIT its time-wait timer is running, so that the time-wait timeout
\* takes it to CLOSED.
C4_ActiveClose ==
    \A e \in Endpoints :
       /\ ClosedFrom(e, {"ESTAB"}) => SentFin /\ tcb[e].state = "FIN_WAIT_1"
       /\ tcb[e].state = "TIME_WAIT" => tcb[e].time_wait_timer

\* C5: the passive side of a graceful close.  An endpoint that has called
\* close() in CLOSE_WAIT does not stay in CLOSE_WAIT once its FIN has been
\* acknowledged.
C5_PassiveClose ==
    \A e \in Endpoints : ~(tcb[e].state = "CLOSE_WAIT" /\ is_fin_acknowledged(tcb[e]))

\* C7: close() in SYN_RCVD or ESTABLISHED sends one FIN|ACK with seq = snd_nxt
\* and ack = rcv_nxt and leaves the endpoint in FIN_WAIT_1.
C7_CloseToFinWait1 ==
    \A e \in Endpoints :
       ClosedFrom(e, {"SYN_RCVD", "ESTAB"}) => SentFin /\ tcb[e].state = "FIN_WAIT_1"

\* C8: close() in CLOSE_WAIT sends a FIN|ACK and moves the endpoint to CLOSING.
C8_CloseToClosing ==
    \A e \in Endpoints :
       ClosedFrom(e, {"CLOSE_WAIT"}) =>
          /\ last.sent # <<>>
          /\ last.sent[1].fin_flag /\ last.sent[1].ack_flag
          /\ tcb[e].state = "CLOSING"

\* e is on one of the lists of its node
Registered(e) ==
    \/ list_has(sockets[NodeOf(e)], e)
    \/ list_has(listening_sockets[NodeOf(e)], e)

\* C9: close() in LISTEN or SYN_SENT ends without an exception in CLOSED; an
\* endpoint in CLOSED is on neither list of the data-link; and an endpoint
\* that a transition has taken into CLOSED (its socket-id is None) has a TCB
\* as delete() leaves it and is not on the worker's list.
C9_ClosedIsRemoved ==
    \A e \in Endpoints :
       /\ ClosedFrom(e, {"LISTEN", "SYN_SENT"}) =>
             last.raised = "none" /\ tcb[e].state = "CLOSED"
       /\ tcb[e].state = "CLOSED" => ~Registered(e)
       /\ tcb[e].state = "CLOSED" /\ tcb[e].socket_id = None =>
             /\ tcb[e] = NewTCB(None, tcb[e].iss)
             /\ tcb[e].iss \in IssChoices(e)
             /\ ~list_has(INSTANCES[NodeOf(e)], e)

\* the retransmission timer has run out in the run() of e that has just ended,
\* for the 26th time in a row for the segment at the front of the queue
CapReached(e) ==
    /\ last.op = "run" /\ last.ep = e /\ last.rtx_expired
    /\ retransmission_attempts[e] = MAX_RETRANSMISSION_ATTEMPTS

\* C6: the run() in which the attempt counter reaches
\* MAX_RETRANSMISSION_ATTEMPTS sends an RST (with seq = snd_nxt), sends nothing
\* after it and leaves the endpoint in CLOSED, whatever its state was; the
\* counter never goes beyond the cap; and a send() after the cap fails.
C6_RetransmissionCap ==
    \A e \in Endpoints :
       /\ CapReached(e) =>
             /\ last.sent # <<>>
             /\ last.sent[Len(last.sent)].rst_flag
             /\ Len(last.sent) = 1 => last.sent[1].seq = last.snd_nxt
             /\ tcb[e].state = "CLOSED"
       /\ retransmission_attempts[e] <= MAX_RETRANSMISSION_ATTEMPTS
       /\ (last.op = "send" /\ last.ep = e
              /\ retransmission_attempts[e] = MAX_RETRANSMISSION_ATTEMPTS) =>
             last.raised # "none"

\* the sequence number of the first byte of data the sensor sends: its SYN
\* takes one sequence number and the payload of the SYN six
FirstData == Seq_add(tcb["s"].iss, 1 + Len(ConnectPayload))

\* the bytes of the segments parked in the receive buffer of e
RECURSIVE ParkedBytes(_)
ParkedBytes(buf) ==
    IF buf = {} THEN 0
    ELSE LET x == CHOOSE y \in buf : TRUE
         IN  Len(x[2]) + ParkedBytes(buf \ {x})

\* a parked segment lies beyond rcv_nxt and holds the bytes the sensor's
\* application wrote at its place in the stream
ParkedInPlace(x, t) ==
    LET offset == Seq_sub(x[1], FirstData)
    IN  /\ Seq_gt(x[1], t.rcv_nxt)
        /\ x[2] = SubSeq(AppData("s"), offset + 1, offset + Len(x[2]))

\* C10: at the gateway, on a connection, rcv_nxt is the sequence number that
\* follows the bytes reassembled so far, which are the first bytes the sensor
\* wrote; every segment in receive_buffer is parked beyond rcv_nxt with its
\* own bytes; and once as many bytes have arrived as the sensor wrote,
\* receive_buffer is empty and the reassembled bytes are all of them.
C10_Reassembly ==
    LET t == tcb["g"]
    IN  t.state = "ESTAB" =>
           /\ t.rcv_nxt = Seq_add(FirstData, Len(Delivered("g")))
           /\ IsPrefix(Delivered("g"), AppData("s"))
           /\ \A x \in t.receive_buffer : ParkedInPlace(x, t)
           /\ Len(Delivered("g")) + ParkedBytes(t.receive_buffer) = Len(app_sent["s"]) =>
                 /\ t.receive_buffer = {}
                 /\ Delivered("g") = app_sent["s"]

\* C10 witness: the sensor has sent MaxReasmSegments segments of ReasmChunk
\* bytes, and the run() of the gateway that has just ended began with rcv_nxt
\* at the first byte of data and, the later segments being parked, has
\* reassembled all the bytes.
C10_Witness ==
    /\ Len(tcb["s"].retransmission_queue) = MaxReasmSegments
    /\ \A i \in 1..MaxReasmSegments :
          Len(tcb["s"].retransmission_queue[i].payload) = ReasmChunk
    /\ last.op = "run" /\ last.ep = "g" /\ last.rcv_nxt = FirstData
    /\ Len(last.sent) = 1 /\ last.sent[1].ack = Seq_add(FirstData, MaxReasmSegments * ReasmChunk)
    /\ tcb["g"].receive_buffer = {}
    /\ tcb["g"].reassembled_data = SubSeq(AppData("s"), 1, MaxReasmSegments * ReasmChunk)


\* the run() of the sensor that has just ended found it in SYN_SENT and has
\* taken the SYN|ACK: the sensor is ESTABLISHED
TookSynAck ==
    /\ last.op = "run" /\ last.ep = "s" /\ last.state = "SYN_SENT"
    /\ tcb["s"].state = "ESTAB"

\* the first segment that run() has sent is an ACK, no SYN, with this seq and
\* ack = the gateway's iss + 1
HandshakeAck(seq) ==
    /\ last.sent # <<>>
    /\ last.sent[1].ack_flag /\ ~last.sent[1].syn_flag
    /\ ~last.sent[1].fin_flag /\ ~last.sent[1].rst_flag
    /\ last.sent[1].seq = seq
    /\ last.sent[1].ack = Seq_add(tcb["g"].iss, 1)

\* C11 as stated: the ACK with which the sensor answers the SYN|ACK has
\* seq = its iss + 1 and ack = the gateway's iss + 1.
C11_AckSeqIssPlus1 ==
    TookSynAck => HandshakeAck(Seq_add(tcb["s"].iss, 1))

\* C11: the ACK with which the sensor answers the SYN|ACK has seq = snd_nxt,
\* which is its iss + 7 (one for the SYN and six for the SYN's payload, what
\* the SYN|ACK has acknowledged), and ack = the gateway's iss + 1.
C11_HandshakeAck ==
    TookSynAck =>
       /\ HandshakeAck(Seq_add(tcb["s"].iss, 1 + Len(ConnectPayload)))
       /\ last.sent[1].seq = last.snd_nxt
       /\ last.sent[1].seq = tcb["s"].snd_una

\* C11 witness: the sensor has taken the SYN|ACK and has answered with one ACK
\* that carries nothing.
C11_Witness ==
    /\ TookSynAck
    /\ Len(last.sent) = 1
    /\ last.sent[1].payload = <<>>
    /\ last.sent[1].seq = Seq_add(tcb["s"].iss, 7)

\* the step is a run() of e
RunOf(e) == last'.op = "run" /\ last'.ep = e

\* the states in which a reset of the peer ends the connection
ResetStates ==
    {"SYN_RCVD", "ESTAB", "FIN_WAIT_1", "FIN_WAIT_2", "CLOSE_WAIT", "CLOSING",
     "LAST_ACK", "TIME_WAIT"}

\* one frame is waiting for e's run(), and it holds an RST whose sequence
\* number lies in e's receive window
RstWaiting(e) ==
    /\ tcb[e].state \in ResetStates
    /\ Len(incoming_dataframes[e]) = 1
    /\ LET seg == from_bytes(incoming_dataframes[e][1])
       IN  /\ seg.rst_flag
           /\ validate_segment(seg)
           /\ tcb[e].rcv_wnd # 0
           /\ check_if_segment_is_in_receive_window(tcb[e], seg)

SendStates == {"SYN_SENT", "SYN_RCVD", "ESTAB", "CLOSE_WAIT"}

\* the step is a call op of e's application
CallOf(op, e) == last'.op = op /\ last'.ep = e

\* the step has left everything of the endpoints and of the data-link as it was
NothingAltered ==
    UNCHANGED <<tcb, incoming_dataframes, retransmission_attempts,
                last_retransmission_sequence_number, sockets, listening_sockets,
                INSTANCES, SOCKET_ID_COUNTER, link>>

C14_Recv ==
    [][\A e \in Endpoints :
          CallOf("read", e) =>
             LET data == tcb[e].reassembled_data
                 n == Len(data)
                 k == Min(last'.bufsize, n)
             IN  IF tcb[e].state = "CLOSED"
                 THEN last'.raised = "OSError" /\ NothingAltered
                 ELSE IF n >= 1
                 THEN /\ last'.raised = "none"
                      /\ last'.data = SubSeq(data, 1, k)
                      /\ tcb' = [tcb EXCEPT ![e].reassembled_data = SubSeq(data, k + 1, n)]
                      /\ app_rcvd'[e] \o tcb'[e].reassembled_data = app_rcvd[e] \o data
                 ELSE /\ NothingAltered
                      /\ last'.data = <<>>
                      /\ last'.mode = "nonblocking" => last'.raised = "none"
                      /\ last'.mode = "timeout" => last'.raised = "ETIMEDOUT"
                      /\ last'.mode # "blocking"]_vars

\* C14 witness: read(RecvBytes - 1) on a socket with a timeout has just
\* handed the gateway's application the first RecvBytes - 1 bytes of
\* RecvBytes, and the last one is left.
C14_Witness ==
    /\ last.op = "read" /\ last.ep = "g" /\ last.mode = "timeout"
    /\ last.bufsize = RecvBytes - 1
    /\ last.data = SubSeq(AppData("s"), 1, RecvBytes - 1)
    /\ tcb["g"].reassembled_data = SubSeq(AppData("s"), RecvBytes, RecvBytes)

\* segment seg on e's retransmission queue lies in e's send window
InSendWindow(e, seg) ==
    /\ Seq_le(tcb[e].snd_una, seg.seq)
    /\ Seq_lt(seg.seq, tcb[e].snd_nxt)

\* C15: in every state every segment on the retransmission queue of an
\* endpoint has snd_una <= seq < snd_nxt in Seq arithmetic.
C15_QueueInSendWindow ==
    \A e \in Endpoints :
       \A i \in 1..Len(tcb[e].retransmission_queue) :
          InSendWindow(e, tcb[e].retransmission_queue[i])

\* the right edge of the receive window of TCB t
WindowEdge(t) == Seq_add(t.rcv_nxt, t.rcv_wnd)

\* C16: on a connection (rcv_nxt is set before and after the step) no step
\* reduces rcv_nxt + rcv_wnd.
C16_WindowEdgeNotReduced ==
    [][\A e \in Endpoints :
          tcb[e].rcv_nxt # None /\ tcb'[e].rcv_nxt # None =>
             Seq_ge(WindowEdge(tcb'[e]), WindowEdge(tcb[e]))]_vars

\* the endpoint has a connection, or is setting one up
InConnection(t) == t.state \notin {"CLOSED", "LISTEN"} /\ t.snd_una # None
\* The run() of this step ends a connection and may begin the next: the
\* endpoint, passive in SYN_RCVD, has an RST among the frames it is about to
\* take, which sends it back to LISTEN for the next SYN.
ConnectionReset(e) ==
    /\ RunOf(e)
    /\ tcb[e].state = "SYN_RCVD" /\ ~tcb[e].active_open
    /\ \E i \in 1..Len(incoming_dataframes[e]) :
          from_bytes(incoming_dataframes[e][i]).rst_flag

\* C17: in every state in which snd_una is set snd_una <= snd_nxt in Seq
\* arithmetic, and no step within a connection moves snd_una backwards.
C17_SndUnaMonotonic ==
    /\ [](\A e \in Endpoints :
             tcb[e].snd_una # None => Seq_le(tcb[e].snd_una, tcb[e].snd_nxt))
    /\ [][\A e \in Endpoints :
             (InConnection(tcb[e]) /\ InConnection(tcb'[e]) /\ ~ConnectionReset(e))
                => Seq_ge(tcb'[e].snd_una, tcb[e].snd_una)]_vars

\* C17 witness: the run() of the sensor that has just ended found it in
\* ESTABLISHED with its segment of AckChunk bytes sent, has answered a segment
\* outside its receive window with a bare ACK, and has taken from it an
\* acknowledgment number inside the segment.
C17_Witness ==
    /\ budget.foreign = 0
    /\ last.op = "run" /\ last.ep = "s" /\ last.state = "ESTAB"
    /\ last.snd_nxt = Seq_add(FirstData, AckChunk)
    /\ Len(last.sent) = 1 /\ last.sent[1].payload = <<>>
    /\ tcb["s"].snd_una = Seq_add(FirstData, 1)
    /\ tcb["s"].snd_nxt = Seq_add(FirstData, AckChunk)


(***************************************************************************)
(* C18                                                                     *)
(***************************************************************************)
\* an endpoint the worker serves and that has a connection or waits for one
Live(e) == list_has(INSTANCES[NodeOf(e)], e) /\ tcb[e].state # "CLOSED"

ApiCalls == {"connect", "listen", "send", "read", "close"}
\* the state-machine variables of a TCB
MachineFields(t) ==
    <<t.state, t.snd_una, t.snd_nxt, t.rcv_nxt, t.fin_seq, t.retransmission_queue>>

\* C19: only the networking worker (run) changes the connection state,
\* snd_una, snd_nxt, rcv_nxt, fin_seq and the retransmission queue: a call of
\* connect, listen, send, recv or close leaves them all as they were.
C19_OnlyWorkerMutates ==
    [][\A e \in Endpoints :
          (last'.op \in ApiCalls /\ last'.ep = e)
              => MachineFields(tcb'[e]) = MachineFields(tcb[e])]_vars

(***************************************************************************)
(* C20                                                                     *)
(***************************************************************************)
\* the time since the window began, as the gateway's clock has it
WindowAge == ticks_diff(clock, duty_cycle_timer)
\* more than 36,000 ms on air in a window that is still running
GateShut == WindowAge < 3600000 /\ transmit_time > 36000
\* the window has run its 3,600,000 ms
WindowOver == WindowAge >= 3600000
\* the step is a call of the gateway data-link's run()
DataLinkRan == last'.op = "datalink_run"
\* the frame the radio handed to that call goes to its endpoint
Dispatched ==
    \A i \in 1..Len(last'.rx) :
        LET f == last'.rx[i]
            target == dispatch("gateway", f)
        IN  target # "none" =>
               incoming_dataframes'[target] =
                  Append(incoming_dataframes[target],
                         [b0 |-> f.b0, seq |-> f.seq, ack |-> f.ack,
                          payload |-> f.payload])

RfcInWindow(p, x) == (x - p.rcv_nxt) % SEQ_MOD < p.rcv_wnd
\* the four cases of RFC 793 for a segment of len bytes at seq
RfcAcceptable(p) ==
    IF p.len = 0 /\ p.rcv_wnd = 0 THEN p.seq = p.rcv_nxt
    ELSE IF p.len = 0 THEN RfcInWindow(p, p.seq)
    ELSE IF p.rcv_wnd = 0 THEN FALSE
    ELSE RfcInWindow(p, p.seq) \/ RfcInWindow(p, (p.seq + p.len - 1) % SEQ_MOD)

\* C21: for every segment length, receive window and sequence number the
\* acceptability decision applied to an arriving segment is that of the four
\* cases of RFC 793.
C21_AcceptabilityIsRfcTable ==
    last.op = "segment_acceptable" => last.out = <<RfcAcceptable(budget.probe)>>

(***************************************************************************)
(* C22                                                                     *)
(***************************************************************************)
\* the mathematical residue of an integer modulo 2^16
Mod16(x) == x % 65536

\* C22: for 16-bit a and b, a < b iff (a - b) mod 2^16 > 2^15; exactly one of
\* a < b and a >= b holds; a + (b - a) = b; a - a = 0; a + k is (a + k) mod
\* 2^16 for every integer k.
C22_SeqLaws ==
    last.op = "Seq" =>
        LET a == budget.probe.a
            b == budget.probe.b
            k == budget.probe.k
        IN  /\ last.out[1] = (Mod16(a - b) > 32768)
            /\ last.out[1] # last.out[2]
            /\ last.out[3] = b
            /\ last.out[4] = 0
            /\ last.out[5] = Mod16(a + k)

(***************************************************************************)
(* C23                                                                     *)
(***************************************************************************)
WellFormed(p) ==
    /\ Len(p.address) = 6
    /\ p.data_type \in {0, 1}
    /\ Len(p.payload) <= 248

\* C23: a well-formed frame (6-byte address, type 0x00 or 0x01, payload within
\* the limit) read back from its bytes is the same (address, type, payload);
\* building a frame from an address that is not 6 bytes, an unknown type or
\* an oversized payload fails, and so does reading fewer than 7 bytes or an
\* unknown type byte.
C23_DataFrameRoundTrip ==
    /\ last.op = "LoRaDataFrame" =>
          LET p == budget.probe
          IN  IF WellFormed(p)
              THEN /\ last.out[1].error = ""
                   /\ last.out[2] = [error |-> "", address |-> p.address,
                                     data_type |-> p.data_type, payload |-> p.payload]
              ELSE last.out[1].error = "ValueError"
    /\ last.op = "from_bytes" =>
          LET data == budget.probe.data
          IN  (Len(data) < 7 \/ data[7] \notin {0, 1}) => last.out[1].error = "ValueError"

C23_Witness ==
    /\ last.op = "LoRaDataFrame"
    /\ WellFormed(budget.probe)
    /\ Len(budget.probe.payload) = 248
    /\ last.out[2].payload = budget.probe.payload

(***************************************************************************)
(* C24                                                                     *)
(***************************************************************************)
\* the sequence numbers a segment occupies: its payload and the one point of
\* its SYN or FIN
Occupies(seg) == Len(seg.payload) + (IF seg.syn_flag \/ seg.fin_flag THEN 1 ELSE 0)
\* a queued segment keeps its place in the sequence space when it is re-sent
\* with a newer acknowledgment number
Placed(seg) == [seq |-> seg.seq, occupies |-> Occupies(seg), fin |-> seg.fin_flag]
Queued(t) == {Placed(t.retransmission_queue[i]) : i \in 1..Len(t.retransmission_queue)}

\* C24: while a connection lasts, a segment leaves the retransmission queue
\* only when snd_una has passed every sequence number it occupies, the point
\* of its SYN or FIN included; a FIN with snd_una <= fin_seq stays queued.
C24_RemovedOnlyWhenAcked ==
    [][\A e \in Endpoints :
          (InConnection(tcb[e]) /\ InConnection(tcb'[e]))
             => \A seg \in Queued(tcb[e]) \ Queued(tcb'[e]) :
                   Seq_le(Seq_add(seg.seq, seg.occupies), tcb'[e].snd_una)]_vars

(***************************************************************************)
(* C25                                                                     *)
(***************************************************************************)
\* a run() of e takes the peer's FIN: the state moves as the FIN moves it
FinTaken(e) ==
    /\ RunOf(e)
    /\ \/ tcb[e].state \in {"SYN_RCVD", "ESTAB"} /\ tcb'[e].state = "CLOSE_WAIT"
       \/ tcb[e].state = "FIN_WAIT_1" /\ tcb'[e].state \in {"CLOSING", "TIME_WAIT"}
       \/ tcb[e].state = "FIN_WAIT_2" /\ tcb'[e].state = "TIME_WAIT"

\* C25: a FIN is taken (rcv_nxt moved over it, state moved to CLOSE_WAIT,
\* CLOSING or TIME_WAIT) only when it is the next sequence number expected:
\* after the step rcv_nxt is one behind the end of a FIN that arrived, and
\* no byte before the FIN is skipped.
C25_FinOnlyInSequence ==
    [][\A e \in Endpoints :
          FinTaken(e) =>
             \E i \in 1..Len(incoming_dataframes[e]) :
                LET seg == from_bytes(incoming_dataframes[e][i])
                IN  /\ seg.fin_flag
                    /\ tcb'[e].rcv_nxt = Seq_add(seg.seq, Len(seg.payload) + 1)]_vars

(***************************************************************************)
(* C26                                                                     *)
(***************************************************************************)
\* the states an endpoint is in after its close() in ESTABLISHED; send()
\* takes no data in any of them
ClosedInEstab == {"FIN_WAIT_1", "FIN_WAIT_2", "CLOSING", "TIME_WAIT"}

\* C26: after close() in ESTABLISHED every byte send() has accepted goes out
\* with a sequence number lower than the FIN's, also when it was still in
\* send_buffer at the time of close().
C26_DataBeforeFin ==
    \A e \in Endpoints :
        (tcb[e].state \in ClosedInEstab /\ tcb[e].fin_seq # None)
           => \A i \in 1..Len(tcb[e].retransmission_queue) :
                 LET seg == tcb[e].retransmission_queue[i]
                 IN  Len(seg.payload) > 0 => Seq_lt(seg.seq, tcb[e].fin_seq)

(***************************************************************************)
(* C27                                                                     *)
(***************************************************************************)
\* C27: an endpoint in TIME_WAIT has its time-wait timer running, whichever
\* state it came from (FIN_WAIT_1, FIN_WAIT_2 or CLOSING); the timer's
\* expiry is what takes the endpoint on to CLOSED.
C27_TimeWaitTimerRuns ==
    \A e \in Endpoints : tcb[e].state = "TIME_WAIT" => tcb[e].time_wait_timer

(***************************************************************************)
(* C28                                                                     *)
(***************************************************************************)
\* a run() of e takes it from SYN_RCVD to ESTABLISHED
Established(e) == RunOf(e) /\ tcb[e].state = "SYN_RCVD" /\ tcb'[e].state = "ESTAB"

\* C28: an endpoint leaves SYN_RCVD for ESTABLISHED only on a segment whose
\* ACK acknowledges its SYN (snd_una < SEG.ACK <= snd_nxt); afterwards
\* snd_una is that ACK value and the SYN|ACK is off the retransmission queue.
C28_EstablishedByAckOfSyn ==
    [][\A e \in Endpoints :
          Established(e) =>
             /\ \E i \in 1..Len(incoming_dataframes[e]) :
                   LET seg == from_bytes(incoming_dataframes[e][i])
                   IN  /\ seg.ack_flag
                       /\ Seq_lt(tcb[e].snd_una, seg.ack)
                       /\ Seq_le(seg.ack, tcb[e].snd_nxt)
                       /\ tcb'[e].snd_una = seg.ack
             /\ \A i \in 1..Len(tcb'[e].retransmission_queue) :
                   ~tcb'[e].retransmission_queue[i].syn_flag]_vars

(***************************************************************************)
(* C29                                                                     *)
(***************************************************************************)
\* the bytes sent and not yet acknowledged
Outstanding(t) == Seq_sub(t.snd_nxt, t.snd_una)

\* the segment that holds the oldest unacknowledged sequence number is queued
Retained(t) ==
    t.snd_una # t.snd_nxt =>
       \E i \in 1..Len(t.retransmission_queue) :
          LET seg == t.retransmission_queue[i]
          IN  /\ Seq_le(seg.seq, t.snd_una)
              /\ Seq_lt(t.snd_una, Seq_add(seg.seq, Occupies(seg)))

\* C29: whatever the application writes, an endpoint never has more than
\* snd_wnd bytes sent and unacknowledged, and what is sent and unacknowledged
\* is on the retransmission queue: the queue of 20 never drops an
\* unacknowledged segment to make room for the 21st.
C29_NothingEvicted ==
    \A e \in Endpoints :
        InConnection(tcb[e]) =>
           /\ Outstanding(tcb[e]) <= tcb[e].snd_wnd
           /\ Retained(tcb[e])

(***************************************************************************)
(* C30                                                                     *)
(***************************************************************************)
\* the one frame run() of e is about to take is a FIN with data that starts
\* at rcv_nxt and whose ACK field is in the send window
FinWithData(e) ==
    /\ tcb[e].state \in {"ESTAB", "FIN_WAIT_1", "FIN_WAIT_2"}
    /\ Len(incoming_dataframes[e]) = 1
    /\ LET seg == from_bytes(incoming_dataframes[e][1])
       IN  /\ seg.fin_flag /\ seg.ack_flag /\ ~seg.syn_flag /\ ~seg.rst_flag
           /\ Len(seg.payload) > 0
           /\ seg.seq = tcb[e].rcv_nxt
           /\ Seq_le(tcb[e].snd_una, seg.ack) /\ Seq_le(seg.ack, tcb[e].snd_nxt)

\* C30: run() that takes an in-sequence FIN with a payload of L bytes in
\* ESTABLISHED, FIN_WAIT_1 or FIN_WAIT_2 appends the payload once to
\* reassembled_data, leaves rcv_nxt = SEG.SEQ + L + 1, sends an ACK with
\* that number and moves to CLOSE_WAIT, to TIME_WAIT or CLOSING from
\* FIN_WAIT_1, to TIME_WAIT from FIN_WAIT_2.
C30_FinWithPayload ==
    [][\A e \in Endpoints :
          (FinWithData(e) /\ RunOf(e)) =>
             LET seg == from_bytes(incoming_dataframes[e][1])
                 end == Seq_add(seg.seq, Len(seg.payload) + 1)
             IN  /\ tcb'[e].reassembled_data = tcb[e].reassembled_data \o seg.payload
                 /\ tcb'[e].rcv_nxt = end
                 /\ \E i \in 1..Len(last'.sent) :
                       last'.sent[i].ack_flag /\ last'.sent[i].ack = end
                 /\ tcb[e].state = "ESTAB" => tcb'[e].state = "CLOSE_WAIT"
                 /\ tcb[e].state = "FIN_WAIT_1" => tcb'[e].state \in {"TIME_WAIT", "CLOSING"}
                 /\ tcb[e].state = "FIN_WAIT_2" => tcb'[e].state = "TIME_WAIT"]_vars

Inbound(op) ==
    IF op.op = "link_run" /\ op.raised = "none" /\ op.rx[1].kind = "packet"
    THEN LoRaDataFrame_from_bytes(op.rx[1].data) ELSE FrameError

DispatchedAsSpecified(f) ==
    LET id == socket_id_of(f.payload)
        connected == {i \in 1..Len(data_link.sockets) : data_link.sockets[i].socket_id = id}
    IN  IF connected # {}
        THEN /\ \E i \in connected :
                   data_link'.sockets =
                       [data_link.sockets EXCEPT ![i].incoming = Append(@, f)]
             /\ data_link'.listening_sockets = data_link.listening_sockets
        ELSE IF Len(data_link.listening_sockets) > 0
        THEN /\ data_link'.sockets = data_link.sockets
             /\ data_link'.listening_sockets =
                   [data_link.listening_sockets EXCEPT ![1].incoming = Append(@, f)]
        ELSE /\ data_link'.sockets = data_link.sockets
             /\ data_link'.listening_sockets = data_link.listening_sockets
             /\ data_link'.SensorState_INSTANCES = data_link.SensorState_INSTANCES

C35_CloseIdempotent ==
    [][\A e \in Endpoints :
          (last.op = "close" /\ last.ep = e /\ last'.op = "close" /\ last'.ep = e)
             => /\ last'.sent = <<>>
                /\ tcb'[e].snd_nxt = tcb[e].snd_nxt
                /\ tcb'[e].fin_seq = tcb[e].fin_seq
                /\ tcb'[e].retransmission_queue = tcb[e].retransmission_queue]_vars

(***************************************************************************)
(* C34: however close() of the application thread and run() of the worker  *)
(* interleave, no two segments sent for the first time that take sequence  *)
(* space overlap in it: any two segments of an endpoint's retransmission   *)
(* queue lie apart by at least what they occupy.                           *)
(***************************************************************************)
Apart(a, b) ==
    LET d == (b.seq - a.seq) % SEQ_MOD
    IN  d >= Occupies(a) /\ SEQ_MOD - d >= Occupies(b)

C34_NoOverlap ==
    \A e \in Endpoints :
        \A i, j \in 1..Len(tcb[e].retransmission_queue) :
            i < j => Apart(tcb[e].retransmission_queue[i], tcb[e].retransmission_queue[j])

\* C36: a read() that waits on a blocking socket without timeout returns or
\* raises once the connection has become CLOSED: whenever the call is in its
\* loop and the state of its endpoint is CLOSED, the call ends later on.
C36_BlockedReadEnds ==
    \A e \in Endpoints : (Waiting(e) /\ tcb[e].state = "CLOSED") ~> ~Waiting(e)

\* the sensor frame f goes to is active as this run() selects: it has been
\* heard (in this run at the latest) within the time a sensor stays active
ActiveAtSelection(f) ==
    LET i == get_state_by_address(data_link'.SensorState_INSTANCES, f.address)
    IN  /\ i # 0
        /\ is_active(clock, data_link'.SensorState_INSTANCES[i].last_communication)

\* sequence q without its element at place i
Without(q, i) == [k \in 1..(Len(q) - 1) |-> IF k < i THEN q[k] ELSE q[k + 1]]

\* a run() of the data-link that gets as far as the selection, the driver
\* sending what it is given
Selecting ==
    /\ last'.op = "link_run"
    /\ last'.raised = "none"
    /\ last'.out = <<"ok">>
    /\ transmitQueue # <<>>
    /\ ~data_link.transmission_block
    /\ ~duty_cycle_exceeded(clock, duty_cycle_timer, transmit_time)

\* C37: a run() of the gateway's data-link takes from the transmit queue the
\* first frame whose sensor is active and sends it, all other frames staying
\* in the queue in their order; with no active sensor's frame queued the queue
\* stays as it is and nothing is sent.  A sensor's data-link takes the first
\* frame.
C37_FirstActiveFrame ==
    [][Selecting =>
          IF data_link.mode = "gateway"
          THEN LET active == {i \in 1..Len(transmitQueue) :
                                 ActiveAtSelection(transmitQueue[i])}
               IN  IF active = {}
                   THEN last'.tx = <<>> /\ transmitQueue' = transmitQueue
                   ELSE \E i \in active :
                           /\ \A j \in active : i <= j
                           /\ last'.tx = <<transmitQueue[i]>>
                           /\ transmitQueue' = Without(transmitQueue, i)
          ELSE /\ last'.tx = <<Head(transmitQueue)>>
               /\ transmitQueue' = Tail(transmitQueue)]_vars

\* the gateway has sent a frame and left an older frame, of a sensor that is
\* not active, in the queue
C37_Witness ==
    /\ last.op = "link_run"
    /\ data_link.mode = "gateway"
    /\ last.tx # <<>>
    /\ \E i \in 1..Len(transmitQueue) :
          /\ transmitQueue[i].address # last.tx[1].address
          /\ transmitQueue[i].payload[3] < last.tx[1].payload[3]
          /\ ~frame_is_active(LinkWorld, transmitQueue[i])

\* the place of segment frame f in the order of the enqueues: a sensor
\* queues the SYN of its one endpoint first; every later segment carries the
\* count of the segments queued before it
Enqueued(f) == IF f.payload[1] % 16 = SYN_FLAG THEN 0 ELSE 1 + f.payload[3]

\* what the radio has sent to one sensor it has sent in the order of the
\* enqueues, no frame twice
RadioInOrder ==
    \A i, j \in 1..Len(data_link.radio) :
        LET f == data_link.radio[i]
            g == data_link.radio[j]
        IN  i < j /\ f.data_type = 1 /\ g.data_type = 1 /\ f.address = g.address
               => Enqueued(f) < Enqueued(g)

\* a run() whose send fails leaves the frame it has tried at the front of the
\* queue and the others behind it in their order
FailedGoesFront ==
    last'.op = "link_run" /\ last'.raised = "none" /\ Faulty(last'.out[1])
        => \E i \in 1..Len(transmitQueue) :
              /\ data_link.mode = "sensor" => i = 1
              /\ transmitQueue' = <<transmitQueue[i]>> \o Without(transmitQueue, i)

\* C38: the frames for one sensor are handed to the radio in the order of
\* their enqueues, whatever enqueues, selections and failed sends there are:
\* a frame whose send fails goes back to the front of the transmit queue and
\* is sent before any later frame for its sensor.
C38_SensorFifo == []RadioInOrder /\ [][FailedGoesFront]_vars

\* a send has failed and the frame is back at the front, a later frame for
\* the same sensor behind it
C38_Witness ==
    /\ last.op = "link_run"
    /\ last.raised = "none"
    /\ Faulty(last.out[1])
    /\ \E i \in 2..Len(transmitQueue) :
          /\ transmitQueue[i].address = transmitQueue[1].address
          /\ Enqueued(transmitQueue[1]) < Enqueued(transmitQueue[i])

\* the BUSY timeouts of the run() just made: of the driver's recv, of its send
BusyTimeouts(l) ==
    (IF l.rx[1].kind \in {"busy", "busy_unrecovered"} THEN 1 ELSE 0)
        + (IF l.out[1] \in {"busy", "busy_unrecovered"} THEN 1 ELSE 0)

\* C39: a BUSY timeout of the modem in run() leaves the transmission block
\* cleared, whether the recovery succeeds or not; a sensor is reset exactly at
\* the tenth BUSY timeout in a row (nine counted, one more comes), a gateway
\* never; and a run() that has sent a frame with no BUSY timeout leaves no
\* timeout counted.
C39_BusyFaults ==
    [][last'.op = "link_run" =>
          /\ ~data_link'.transmission_block
          /\ BusyTimeouts(last') = 1 =>
                (last'.raised = "reset"
                    <=> data_link.mode = "sensor"
                           /\ data_link.busy_timeout_retries = LinkReset - 1)
          /\ BusyTimeouts(last') = 0 /\ last'.tx # <<>> =>
                data_link'.busy_timeout_retries = 0]_vars

\* C40: a Queue(maxsize) never holds more than maxsize items, whatever calls
\* of put_sync, put_sync_left and pop_sync are made; put_sync on a full queue
\* takes away the oldest item (the one at the head) and nothing else, and
\* puts the new item at the tail; pop_sync returns the item at the head, so
\* the items put come out in the order they went in, and returns None from
\* an empty queue, which it leaves empty.
C40_BoundedFifo ==
    /\ [](budget.probe.fn = "Queue" => Len(transmitQueue) <= budget.probe.maxsize)
    /\ [][last'.op = "put_sync" =>
             transmitQueue' =
                 (IF Len(transmitQueue) = budget.probe.maxsize
                  THEN Tail(transmitQueue) ELSE transmitQueue) \o last'.out]_vars
    /\ [][last'.op = "pop_sync" =>
             IF transmitQueue = <<>>
             THEN last'.out = <<None>> /\ transmitQueue' = <<>>
             ELSE <<last'.out[1]>> \o transmitQueue' = transmitQueue]_vars

\* put_sync has been called on a full queue of more than one item
C40_Witness ==
    /\ last.op = "put_sync"
    /\ Len(last.data) = budget.probe.maxsize
    /\ budget.probe.maxsize > 1
    /\ Len(transmitQueue) = budget.probe.maxsize

====
